---- MODULE Spec2Model ----
(***************************************************************************)
(* Verification model of yaozarrs: the caching store reader                *)
(* (src/yaozarrs/_zarr.py), the ValidationResult accumulator               *)
(* (src/yaozarrs/_storage.py) and the storage-hierarchy validator          *)
(* (src/yaozarrs/v04/_storage.py).                                         *)
(*                                                                         *)
(* Store keys are pairs <<path, file>>: path is the sequence of the path   *)
(* segments of a node ("A/1/0" is <<"A","1","0">>) and file is the name of *)
(* the metadata file ("zarr.json", ".zgroup", ".zarray", ".zattrs").       *)
(* Python values that a cache slot or a return value can hold are tagged   *)
(* records: None, bytes, or an exception instance.                         *)
(***************************************************************************)
EXTENDS Integers, Sequences, FiniteSets, TLC

VARIABLES fsmap, cache, reads, last, result, other, nAdded, walk

cacheVars == <<fsmap, cache, reads, last>>
resultVars == <<result, other, nAdded>>
vars == <<fsmap, cache, reads, last, result, other, nAdded, walk>>

----------------------------------------------------------------------------
(* Python values *)

None == [tag |-> "none"]
Bytes(v) == [tag |-> "bytes", val |-> v]
Exc(name) == [tag |-> "exc", exc |-> name]

Range(seq) == {seq[i] : i \in 1..Len(seq)}

EmptyMap == <<>>

Bump(cnt, k) == IF k \in DOMAIN cnt THEN [cnt EXCEPT ![k] = @ + 1] ELSE (k :> 1) @@ cnt

----------------------------------------------------------------------------
(* The underlying fsspec FSMap, as _CachedMapper uses it *)

\* FSMap.get(key, default): Mapping.get, the stored bytes or the default
FSMap_get(key, default) == IF key \in DOMAIN fsmap THEN Bytes(fsmap[key]) ELSE default

\* FSMap.getitems(keys, on_error="return"): every requested key is in the
\* result, a missing key as a KeyError instance
FSMap_getitems(keys) ==
  [k \in Range(keys) |-> IF k \in DOMAIN fsmap THEN Bytes(fsmap[k]) ELSE Exc("KeyError")]

----------------------------------------------------------------------------
(* _CachedMapper: s is a record with at least the fields cache and reads;  *)
(* every operation returns [s, ret, exc]: the new state, the value         *)
(* returned, and the exception raised (None when it returns normally).     *)

Ret(s, v) == [s |-> s, ret |-> v, exc |-> None]
Raise(s, e) == [s |-> s, ret |-> None, exc |-> e]

\* get that returns the fetched value without storing it in the cache
Mut_get_no_store(s, key, default, bad) ==
  IF key \notin DOMAIN s.cache
  THEN IF key \in bad
       THEN Raise(s, Exc("OSError"))
       ELSE Ret([s EXCEPT !.reads = Bump(s.reads, key)], FSMap_get(key, default))
  ELSE LET val == s.cache[key]
       IN IF val.tag = "exc" THEN Raise(s, val) ELSE Ret(s, val)

\* _CachedMapper.get; bad is the set of keys whose individual fetch raises
CachedMapper_get(s, key, default, bad) ==
  IF key \notin DOMAIN s.cache
  THEN IF key \in bad
       THEN Raise(s, Exc("OSError"))
       ELSE LET val == FSMap_get(key, default)
                s2 == [s EXCEPT !.cache = (key :> val) @@ s.cache,
                                !.reads = Bump(s.reads, key)]
            IN IF val.tag = "exc" THEN Raise(s2, val) ELSE Ret(s2, val)
  ELSE LET val == s.cache[key]
       IN IF val.tag = "exc" THEN Raise(s, val) ELSE Ret(s, val)

NotAStr == <<<<"123">>, "int">>

\* _CachedMapper.__contains__
CachedMapper_contains(s, key, bad) ==
  IF key = NotAStr
  THEN Ret(s, FALSE)
  ELSE IF key \in DOMAIN s.cache
       THEN Ret(s, s.cache[key].tag = "bytes")
       ELSE IF key \in bad
            THEN Raise(s, Exc("OSError"))
            ELSE LET val == FSMap_get(key, None)
                     s2 == [s EXCEPT !.cache = (key :> val) @@ s.cache,
                                     !.reads = Bump(s.reads, key)]
                 IN Ret(s2, val.tag = "bytes")

\* _CachedMapper.__getitem__
CachedMapper_getitem(s, key, bad) ==
  LET r == CachedMapper_get(s, key, None, bad)
  IN IF r.exc # None THEN r
     ELSE IF r.ret = None THEN Raise(r.s, Exc("KeyError")) ELSE r

\* a fallback that gives the batch up: every uncached key is recorded as absent
Mut_fallback_discards(s, uncached, i, on_error, bad) ==
  Ret([s EXCEPT !.cache = [k \in Range(uncached) |-> None] @@ s.cache], None)

\* the fallback loop of getitems over uncached_keys[i..]
RECURSIVE FallbackLoop(_, _, _, _, _)
FallbackLoop(s, uncached, i, on_error, bad) ==
  IF i > Len(uncached) THEN Ret(s, None)
  ELSE LET key == uncached[i]
       IN IF key \in bad
          THEN IF on_error = "raise"
               THEN Raise(s, Exc("OSError"))
               ELSE FallbackLoop([s EXCEPT !.cache = (key :> None) @@ s.cache],
                                 uncached, i + 1, on_error, bad)
          ELSE FallbackLoop([s EXCEPT !.cache = (key :> FSMap_get(key, None)) @@ s.cache,
                                      !.reads = Bump(s.reads, key)],
                            uncached, i + 1, on_error, bad)

RECURSIVE BumpAll(_, _)
BumpAll(cnt, ks) ==
  IF ks = {} THEN cnt
  ELSE LET k == CHOOSE x \in ks : TRUE IN BumpAll(Bump(cnt, k), ks \ {k})

\* the result dict of getitems: the requested keys whose cached value is not None
GetitemsResult(s, keys) ==
  [k \in {x \in Range(keys) : x \in DOMAIN s.cache /\ s.cache[x] # None} |-> s.cache[k]]

\* getitems that fetches every requested key again, cached or not
Mut_getitems_refetch(s, keys, on_error, batchRaises, bad) ==
  LET fetched ==
        IF keys = <<>> THEN Ret(s, None)
        ELSE IF ~batchRaises
             THEN Ret([s EXCEPT !.cache = FSMap_getitems(keys) @@ s.cache,
                                !.reads = BumpAll(s.reads, Range(keys))], None)
             ELSE FallbackLoop(s, keys, 1, on_error, bad)
  IN IF fetched.exc # None THEN fetched
     ELSE Ret(fetched.s, GetitemsResult(fetched.s, keys))

\* _CachedMapper.getitems; batchRaises: the underlying batch fetch raises
CachedMapper_getitems(s, keys, on_error, batchRaises, bad) ==
  LET uncached_keys == SelectSeq(keys, LAMBDA k : k \notin DOMAIN s.cache)
      fetched ==
        IF uncached_keys = <<>> THEN Ret(s, None)
        ELSE IF ~batchRaises
             THEN Ret([s EXCEPT !.cache = FSMap_getitems(uncached_keys) @@ s.cache,
                                !.reads = BumpAll(s.reads, Range(uncached_keys))], None)
             ELSE FallbackLoop(s, uncached_keys, 1, on_error, bad)
  IN IF fetched.exc # None THEN fetched
     ELSE Ret(fetched.s, GetitemsResult(fetched.s, keys))

----------------------------------------------------------------------------
(* Metadata documents.  The attributes of a node are a record: keys is the  *)
(* key set of the JSON object, the other fields are the values under those *)
(* keys (meaningful only for the keys present).                            *)

NoSource == <<"<none>">>

Attrs(keys) ==
  [keys |-> keys, version |-> "0.4", multiscales |-> <<>>, labels |-> <<>>,
   wells |-> <<>>, images |-> <<>>, series |-> <<>>, layout |-> 3,
   source |-> NoSource, dimension_names |-> <<>>]

EmptyAttrs == Attrs({})

\* ZarrMetadata.model_validate / model_validate_json: the fields are typed
\* Literal[2, 3] and Literal["group", "array"]
ZarrMetadata_valid(meta) ==
  meta.zarr_format \in {2, 3} /\ meta.node_type \in {"group", "array"}

\* ZarrNode.__init__ / ZarrGroup(...) / ZarrArray(...) with pre-loaded metadata
ZarrNode(path, meta) == [path |-> path, meta |-> meta]

----------------------------------------------------------------------------
(* Metadata loading through the caching wrapper (_load_zarr_json,          *)
(* _load_zgroup, _load_zarray).  A walk state s carries cache, reads, the  *)
(* number nbatch of batch fetches issued, the set failing of the batch     *)
(* fetches that raise, the running handler and the log of reader calls.    *)

NoFail == {}

\* r = <call>, then F(r)
Bind(r, F(_)) == F(r)

\* r = <call> outside any try: an exception propagates, otherwise F(r)
Try(r, F(_)) == IF r.exc # None THEN r ELSE F(r)

\* _load_zarr_json
load_zarr_json(s, prefix) ==
  Try(CachedMapper_get(s, <<prefix, "zarr.json">>, None, NoFail), LAMBDA r :
    IF r.ret = None THEN Ret(r.s, None)
    ELSE IF ZarrMetadata_valid(r.ret.val)
         THEN Ret(r.s, Bytes(r.ret.val))
         ELSE Raise(r.s, Exc("ValidationError")))

\* the body shared by _load_zgroup and _load_zarray
load_v2(s, prefix, file, node_type) ==
  Try(CachedMapper_get(s, <<prefix, file>>, None, NoFail), LAMBDA r :
    IF r.ret = None THEN Ret(r.s, None)
    ELSE Try(CachedMapper_get(r.s, <<prefix, ".zattrs">>, None, NoFail), LAMBDA a :
           LET meta == [zarr_format |-> r.ret.val.zarr_format,
                        node_type |-> node_type,
                        attributes |-> IF a.ret = None THEN EmptyAttrs
                                       ELSE a.ret.val,
                        shape |-> r.ret.val.shape,
                        data_type |-> r.ret.val.dtype]
           IN IF ZarrMetadata_valid(meta)
              THEN Ret(a.s, Bytes(meta))
              ELSE Raise(a.s, Exc("ValidationError"))))

\* _load_zgroup
load_zgroup(s, prefix) == load_v2(s, prefix, ".zgroup", "group")

\* _load_zarray
load_zarray(s, prefix) == load_v2(s, prefix, ".zarray", "array")

\* _load_zarr_metadata trying the zarr v2 files before zarr.json
Mut_load_zarr_metadata_v2_first(s, path) ==
  Try(load_zgroup(s, path), LAMBDA rg :
    IF rg.ret # None THEN rg
    ELSE Try(load_zarray(rg.s, path), LAMBDA ra :
           IF ra.ret # None THEN ra
           ELSE Try(load_zarr_json(ra.s, path), LAMBDA r3 :
                  IF r3.ret # None THEN r3
                  ELSE Raise(r3.s, Exc("FileNotFoundError")))))

\* _load_zarr_metadata: zarr.json, then .zgroup, then .zarray
load_zarr_metadata(s, path) ==
  Try(load_zarr_json(s, path), LAMBDA r3 :
    IF r3.ret # None THEN r3
    ELSE Try(load_zgroup(r3.s, path), LAMBDA rg :
           IF rg.ret # None THEN rg
           ELSE Try(load_zarray(rg.s, path), LAMBDA ra :
                  IF ra.ret # None THEN ra
                  ELSE Raise(ra.s, Exc("FileNotFoundError")))))

----------------------------------------------------------------------------
(* ZarrGroup: g is a node [path, meta] *)

Log(s, e) == [s EXCEPT !.log = Append(@, e)]

\* the metadata_paths list built by prefetch_children
RECURSIVE metadata_paths(_, _, _)
metadata_paths(g, child_keys, i) ==
  IF i > Len(child_keys) THEN <<>>
  ELSE LET child_path == g.path \o child_keys[i]
       IN (IF g.meta.zarr_format >= 3
           THEN <<<<child_path, "zarr.json">>>>
           ELSE <<<<child_path, ".zgroup">>, <<child_path, ".zarray">>>>)
          \o metadata_paths(g, child_keys, i + 1)

\* the batch fetch of prefetch_children: it reaches the store when some path
\* is not cached, and raises there when the fetch is one of s.failing
batch_fetch(s, paths) ==
  IF \E i \in 1..Len(paths) : paths[i] \notin DOMAIN s.cache
  THEN CachedMapper_getitems([s EXCEPT !.nbatch = @ + 1], paths, "omit",
                             (s.nbatch + 1) \in s.failing, NoFail)
  ELSE CachedMapper_getitems(s, paths, "omit", FALSE, NoFail)

\* ZarrGroup.prefetch_children: one getitems call, any exception swallowed
prefetch_children(s, g, child_keys) ==
  Bind(batch_fetch(Log(s, [ev |-> "prefetch", handler |-> s.handler,
                           group |-> g.path, keys |-> child_keys]),
                   metadata_paths(g, child_keys, 1)),
       LAMBDA r : Ret(r.s, None))

\* ZarrGroup.__contains__ in a zarr v2 group
contains_v2(s, child_path) ==
  Try(CachedMapper_contains(s, <<child_path, ".zgroup">>, NoFail), LAMBDA r :
    IF r.ret THEN r
    ELSE CachedMapper_contains(r.s, <<child_path, ".zarray">>, NoFail))

\* ZarrGroup.__contains__
contains(s, g, key) ==
  Bind(Log(s, [ev |-> "access", handler |-> s.handler, group |-> g.path,
               key |-> key]),
       LAMBDA s1 :
         IF g.meta.zarr_format >= 3
         THEN CachedMapper_contains(s1, <<g.path \o key, "zarr.json">>, NoFail)
         ELSE contains_v2(s1, g.path \o key))

\* ZarrGroup._getitem_v3
getitem_v3(s, child_path) ==
  Try(load_zarr_json(s, child_path), LAMBDA r :
    IF r.ret # None THEN Ret(r.s, ZarrNode(child_path, r.ret.val))
    ELSE Raise(r.s, Exc("KeyError")))

\* ZarrGroup._getitem_v2
getitem_v2(s, child_path) ==
  Try(load_zgroup(s, child_path), LAMBDA rg :
    IF rg.ret # None THEN Ret(rg.s, ZarrNode(child_path, rg.ret.val))
    ELSE Try(load_zarray(rg.s, child_path), LAMBDA ra :
           IF ra.ret # None THEN Ret(ra.s, ZarrNode(child_path, ra.ret.val))
           ELSE Raise(ra.s, Exc("KeyError"))))

\* ZarrGroup.__getitem__
getitem(s, g, key) ==
  Bind(Log(s, [ev |-> "access", handler |-> s.handler, group |-> g.path,
               key |-> key]),
       LAMBDA s1 :
         IF g.meta.zarr_format >= 3
         THEN getitem_v3(s1, g.path \o key)
         ELSE getitem_v2(s1, g.path \o key))

\* ZarrGroup.get: only KeyError is turned into the default
get(s, g, key) ==
  Bind(getitem(s, g, key), LAMBDA r :
    IF r.exc = Exc("KeyError") THEN Ret(r.s, None) ELSE r)

isinstance_ZarrGroup(node) == node # None /\ node.meta.node_type = "group"
isinstance_ZarrArray(node) == node # None /\ node.meta.node_type = "array"

----------------------------------------------------------------------------
(* ValidationResult (src/yaozarrs/_storage.py) *)

ValidationResult == [errors |-> <<>>, warnings |-> <<>>]

ErrorDetails(type, loc) == [type |-> type, loc |-> loc]

\* ValidationResult.merge: a new result, self's entries then other's
merge(self, o) ==
  [errors |-> self.errors \o o.errors, warnings |-> self.warnings \o o.warnings]

\* ValidationResult.add_error: appends to self.errors
add_error(self, error_type, loc) ==
  [self EXCEPT !.errors = Append(@, ErrorDetails(error_type, loc))]

\* ValidationResult.add_warning: appends to self.warnings
add_warning(self, error_type, loc) ==
  [self EXCEPT !.warnings = Append(@, ErrorDetails(error_type, loc))]

\* is_valid that also requires an empty warnings list
Mut_is_valid_counts_warnings(self) == Len(self.errors) = 0 /\ Len(self.warnings) = 0

\* ValidationResult.is_valid
is_valid(self) == Len(self.errors) = 0

----------------------------------------------------------------------------
(* OME-Zarr 0.4 documents (src/yaozarrs/v04) *)

NoTag == "<none>"

\* _discriminate_ome_v04_metadata on a dict
discriminate_ome_v04_metadata(v) ==
  IF "image-label" \in v.keys THEN "label-image"
  ELSE IF "multiscales" \in v.keys THEN "image"
  ELSE IF "plate" \in v.keys THEN "plate"
  ELSE IF "bioformats2raw.layout" \in v.keys \/ "bioformats2raw_layout" \in v.keys
       THEN "bf2raw"
  ELSE IF "well" \in v.keys THEN "well"
  ELSE IF "labels" \in v.keys THEN "labels-group"
  ELSE IF "series" \in v.keys THEN "series"
  ELSE NoTag

\* Multiscale: at least one dataset, two to five axes
Multiscale_valid(ms) == Len(ms.datasets) >= 1 /\ Len(ms.axes) \in 2..5

\* the field constraints of the model class selected by the tag
model_valid(tag, v) ==
  CASE tag \in {"label-image", "image"} ->
         /\ "multiscales" \in v.keys
         /\ Len(v.multiscales) >= 1
         /\ \A i \in 1..Len(v.multiscales) : Multiscale_valid(v.multiscales[i])
    [] tag = "plate" -> Len(v.wells) >= 1
    [] tag = "bf2raw" -> v.layout = 3
    [] tag = "well" -> Len(v.images) >= 1
    [] tag = "labels-group" -> Len(v.labels) >= 1
    [] tag = "series" -> Len(v.series) >= 1
    [] OTHER -> FALSE

\* _OME_VALIDATOR.validate_python(attrs): the model, or a ValidationError
\* (a ValueError) when no tag matches or the tagged model rejects the dict
OME_VALIDATOR(attrs) ==
  LET tag == discriminate_ome_v04_metadata(attrs)
  IN IF model_valid(tag, attrs)
     THEN [exc |-> None, tag |-> tag, doc |-> attrs]
     ELSE [exc |-> Exc("ValidationError"), tag |-> NoTag, doc |-> attrs]

\* ZarrGroup.ome_metadata(version="0.4") of a child group, inside
\* try/except ValueError: the model, or the exception as a value
ome_metadata(g) == OME_VALIDATOR(g.meta.attributes)

isinstance_Image(m) == m.exc = None /\ m.tag \in {"image", "label-image"}
isinstance_LabelImage(m) == m.exc = None /\ m.tag = "label-image"
isinstance_LabelsGroup(m) == m.exc = None /\ m.tag = "labels-group"
isinstance_Plate(m) == m.exc = None /\ m.tag = "plate"
isinstance_Well(m) == m.exc = None /\ m.tag = "well"
isinstance_Bf2Raw(m) == m.exc = None /\ m.tag = "bf2raw"
isinstance_Series(m) == m.exc = None /\ m.tag = "series"

\* str(i) for the indices that occur
Digits == <<"0", "1", "2", "3", "4", "5", "6", "7", "8", "9">>
Str(i) == Digits[i + 1]

\* _is_integer_dtype; a dtype string is the sequence of its characters
RECURSIVE lstrip(_, _)
lstrip(str, chars) ==
  IF str # <<>> /\ Head(str) \in chars THEN lstrip(Tail(str), chars) ELSE str

startswith(str, prefix) ==
  Len(str) >= Len(prefix) /\ SubSeq(str, 1, Len(prefix)) = prefix

\* _is_integer_dtype that leaves the byte-order prefix in place
Mut_is_integer_dtype_no_strip(dtype_str) ==
  \/ startswith(dtype_str, <<"i", "n", "t">>)
  \/ startswith(dtype_str, <<"u", "i", "n", "t">>)
  \/ /\ Len(dtype_str) >= 2
     /\ dtype_str[1] \in {"i", "u"}
     /\ dtype_str[2] \in Range(Digits)

is_integer_dtype(dtype_str) ==
  LET dtype_clean == lstrip(dtype_str, {"<", ">", "=", "|"})
  IN \/ startswith(dtype_clean, <<"i", "n", "t">>)
     \/ startswith(dtype_clean, <<"u", "i", "n", "t">>)
     \/ /\ Len(dtype_clean) >= 2
        /\ dtype_clean[1] \in {"i", "u"}
        /\ dtype_clean[2] \in Range(Digits)

\* posixpath.normpath(posixpath.join(root, path, src_rel_path)) relative to
\* the store root: inside is FALSE when the res lies outside the store
RECURSIVE resolve_source_path(_, _)
resolve_source_path(path, rel) ==
  IF rel = <<>> THEN [inside |-> TRUE, path |-> path]
  ELSE IF Head(rel) = ".."
       THEN IF path = <<>> THEN [inside |-> FALSE, path |-> <<>>]
            ELSE resolve_source_path(SubSeq(path, 1, Len(path) - 1), Tail(rel))
       ELSE resolve_source_path(Append(path, Head(rel)), Tail(rel))

----------------------------------------------------------------------------
(* StorageValidatorV04 (src/yaozarrs/v04/_storage.py).  Every visitor      *)
(* returns [s, ret, exc] with ret the ValidationResult.  The walk state     *)
(* also names the running handler, and the log records which child lists a *)
(* handler iterates and which entries it reaches.                          *)

Enter(s, handler, g, children) ==
  [Log(s, [ev |-> "list", handler |-> handler, group |-> g.path,
           children |-> children])
     EXCEPT !.handler = handler]

Sibling(s, handler, g, key) ==
  [Log(s, [ev |-> "sibling", handler |-> handler, group |-> g.path, key |-> key])
     EXCEPT !.handler = handler]

\* a handle opened by open_group on another path: its own empty cache
FreshHandle == [cache |-> EmptyMap, reads |-> EmptyMap]

\* _validate_labels_image_source
validate_labels_image_source(g, src_img_rel_path, loc_prefix) ==
  LET image_source == resolve_source_path(g.path, src_img_rel_path)
      loc == loc_prefix \o <<"image_label", "source", "image">>
      not_found == add_error(ValidationResult, "label_image_source_not_found", loc)
  IN IF ~image_source.inside THEN not_found
     ELSE Bind(load_zarr_metadata(FreshHandle, image_source.path), LAMBDA opened :
            IF opened.exc # None \/ opened.ret.val.node_type # "group"
            THEN not_found
            ELSE Bind(OME_VALIDATOR(opened.ret.val.attributes), LAMBDA source_meta :
                   IF source_meta.exc # None THEN not_found
                   ELSE IF ~isinstance_Image(source_meta)
                        THEN add_error(ValidationResult,
                                       "label_image_source_invalid", loc)
                        ELSE ValidationResult))

\* _validate_label_data_types: the loop over multiscales and their datasets
RECURSIVE validate_label_data_types(_, _, _, _, _, _, _)
validate_label_data_types(s, image_model, g, loc_prefix, ms_idx, ds_idx, res) ==
  IF ms_idx >= Len(image_model.doc.multiscales) THEN Ret(s, res)
  ELSE IF ds_idx >= Len(image_model.doc.multiscales[ms_idx + 1].datasets)
       THEN validate_label_data_types(s, image_model, g, loc_prefix,
                                      ms_idx + 1, 0, res)
       ELSE Try(get(s, g, image_model.doc.multiscales[ms_idx + 1].datasets[ds_idx + 1]),
                LAMBDA arr :
                  validate_label_data_types(
                    arr.s, image_model, g, loc_prefix, ms_idx, ds_idx + 1,
                    IF isinstance_ZarrArray(arr.ret)
                       /\ ~is_integer_dtype(arr.ret.meta.data_type)
                    THEN add_error(res, "label_non_integer_dtype",
                                   loc_prefix \o <<"multiscales", Str(ms_idx),
                                                   "datasets", Str(ds_idx), "path">>)
                    ELSE res))

\* visit_label_image
visit_label_image(s, g, label_image_model, loc_prefix) ==
  Try(validate_label_data_types(Enter(s, "visit_label_image", g, <<>>),
                                label_image_model, g, loc_prefix, 0, 0,
                                ValidationResult),
      LAMBDA types :
        Ret(types.s,
            merge(IF label_image_model.doc.source # NoSource
                  THEN merge(ValidationResult,
                             validate_labels_image_source(
                               g, label_image_model.doc.source, loc_prefix))
                  ELSE ValidationResult,
                  types.ret)))

\* the checks of _visit_multiscale_no_prefetch on a dataset that is an array
check_dataset_array(arr, multiscale, ds_loc, res) ==
  LET ndim == Len(arr.meta.shape)
      dim_names == arr.meta.attributes.dimension_names
  IN Bind(IF ndim # Len(multiscale.axes)
          THEN add_error(res, "dataset_dimension_mismatch", ds_loc)
          ELSE res,
          LAMBDA r1 :
            IF dim_names # <<>> /\ dim_names # multiscale.axes
            THEN add_error(r1, "dimension_names_mismatch",
                           Append(ds_loc, "dimension_names"))
            ELSE r1)

\* _visit_multiscale_no_prefetch: the loop over multiscale.datasets
RECURSIVE visit_multiscale_no_prefetch(_, _, _, _, _, _)
visit_multiscale_no_prefetch(s, g, multiscale, loc_prefix, ds_idx, res) ==
  IF ds_idx >= Len(multiscale.datasets) THEN Ret(s, res)
  ELSE Try(get(Sibling(s, "visit_image", g, multiscale.datasets[ds_idx + 1]), g,
               multiscale.datasets[ds_idx + 1]),
           LAMBDA arr :
             LET ds_loc == loc_prefix \o <<"datasets", Str(ds_idx), "path">>
             IN visit_multiscale_no_prefetch(
                  arr.s, g, multiscale, loc_prefix, ds_idx + 1,
                  IF arr.ret = None
                  THEN add_error(res, "dataset_path_not_found", ds_loc)
                  ELSE IF ~isinstance_ZarrArray(arr.ret)
                       THEN add_error(res, "dataset_not_array", ds_loc)
                       ELSE check_dataset_array(arr.ret, multiscale, ds_loc, res)))

\* the return value of _check_for_labels_group when no labels group is found
no_labels(res) ==
  [result |-> res, found |-> FALSE, labels_group |-> None, labels_model |-> None]

\* _check_for_labels_group: ret is [result, found, labels_group, labels_model]
check_for_labels_group(s, g, loc_prefix) ==
  Try(get(s, g, <<"labels">>), LAMBDA labels_group :
    IF labels_group.ret = None
    THEN Ret(labels_group.s, no_labels(ValidationResult))
    ELSE IF ~isinstance_ZarrGroup(labels_group.ret)
         THEN Ret(labels_group.s,
                  no_labels(add_error(ValidationResult, "labels_not_group",
                                      Append(loc_prefix, "labels"))))
    ELSE Bind(OME_VALIDATOR(labels_group.ret.meta.attributes), LAMBDA labels_attrs :
           IF labels_attrs.exc # None
           THEN Ret(labels_group.s,
                    no_labels(add_error(ValidationResult, "labels_metadata_invalid",
                                        Append(loc_prefix, "labels"))))
           ELSE IF isinstance_LabelsGroup(labels_attrs)
                THEN Ret(labels_group.s,
                         [result |-> ValidationResult, found |-> TRUE,
                          labels_group |-> labels_group.ret,
                          labels_model |-> labels_attrs])
           ELSE Ret(labels_group.s, no_labels(ValidationResult))))

\* the zip(label multiscales, parent multiscales) loop of visit_labels_group
RECURSIVE label_dataset_counts(_, _, _, _, _)
label_dataset_counts(label_image_model, parent_image_model, label_loc, ms_idx, res) ==
  IF \/ ms_idx >= Len(label_image_model.doc.multiscales)
     \/ ms_idx >= Len(parent_image_model.doc.multiscales)
  THEN res
  ELSE LET n_lbl_ds == Len(label_image_model.doc.multiscales[ms_idx + 1].datasets)
           n_img_ds == Len(parent_image_model.doc.multiscales[ms_idx + 1].datasets)
       IN label_dataset_counts(
            label_image_model, parent_image_model, label_loc, ms_idx + 1,
            IF n_lbl_ds < n_img_ds
            THEN add_error(res, "label_dataset_count_mismatch",
                           label_loc \o <<"multiscales", Str(ms_idx)>>)
            ELSE res)

\* a comparison that accepts a label image with more multiscales than the parent
Mut_label_counts_at_least(label_image_model, parent_image_model, label_loc, res) ==
  label_dataset_counts(
    label_image_model, parent_image_model, label_loc, 0,
    IF Len(label_image_model.doc.multiscales) < Len(parent_image_model.doc.multiscales)
    THEN add_error(res, "label_multiscale_count_mismatch", label_loc)
    ELSE res)

\* the comparison of a label image with the parent image (parent is not None)
label_counts(label_image_model, parent_image_model, label_loc, res) ==
  LET n_lbl_ms == Len(label_image_model.doc.multiscales)
      n_img_ms == Len(parent_image_model.doc.multiscales)
  IN label_dataset_counts(
       label_image_model, parent_image_model, label_loc, 0,
       IF n_lbl_ms # n_img_ms
       THEN add_error(res, "label_multiscale_count_mismatch", label_loc)
       ELSE res)

\* visit_labels_group: the loop over labels_model.labels
RECURSIVE visit_labels_loop(_, _, _, _, _, _, _)
visit_labels_loop(s, g, labels_model, loc_prefix, parent_image_model, label_idx, res) ==
  IF label_idx >= Len(labels_model.doc.labels) THEN Ret(s, res)
  ELSE LET label_path == labels_model.doc.labels[label_idx + 1]
           label_loc == loc_prefix \o <<"labels", Str(label_idx)>>
           next(s1, r) == visit_labels_loop(s1, g, labels_model, loc_prefix,
                                            parent_image_model, label_idx + 1, r)
       IN Try(contains(Sibling(s, "visit_labels_group", g, label_path), g, label_path),
              LAMBDA isin :
         IF ~isin.ret
         THEN next(isin.s, add_error(res, "label_path_not_found", label_loc))
         ELSE Try(getitem(isin.s, g, label_path), LAMBDA label_group :
           IF ~isinstance_ZarrGroup(label_group.ret)
           THEN next(label_group.s, add_error(res, "label_path_not_group", label_loc))
           ELSE Bind(ome_metadata(label_group.ret), LAMBDA label_image_model :
             IF ~isinstance_Image(label_image_model)
             THEN next(label_group.s, add_error(res, "label_image_invalid", label_loc))
             ELSE Bind(IF parent_image_model # None
                       THEN label_counts(label_image_model, parent_image_model,
                                         label_loc, res)
                       ELSE res,
                       LAMBDA r1 :
               IF isinstance_LabelImage(label_image_model)
               THEN Try(visit_label_image(label_group.s, label_group.ret,
                                          label_image_model, label_loc),
                        LAMBDA visited : next(visited.s, merge(r1, visited.ret)))
               ELSE next(label_group.s,
                         add_warning(r1, "label_image_invalid", label_loc))))))

\* visit_labels_group
visit_labels_group(s, g, labels_model, loc_prefix, parent_image_model) ==
  Bind(prefetch_children(Enter(s, "visit_labels_group", g, labels_model.doc.labels),
                         g, labels_model.doc.labels),
       LAMBDA p :
         visit_labels_loop(p.s, g, labels_model, loc_prefix, parent_image_model,
                           0, ValidationResult))

\* every ds.path of every multiscale, in order
RECURSIVE dataset_paths(_, _)
dataset_paths(multiscales, i) ==
  IF i > Len(multiscales) THEN <<>>
  ELSE multiscales[i].datasets \o dataset_paths(multiscales, i + 1)

\* visit_image: the loop over image_model.multiscales
RECURSIVE visit_multiscales_loop(_, _, _, _, _, _)
visit_multiscales_loop(s, g, image_model, loc_prefix, ms_idx, res) ==
  IF ms_idx >= Len(image_model.doc.multiscales) THEN Ret(s, res)
  ELSE Try(visit_multiscale_no_prefetch(
             s, g, image_model.doc.multiscales[ms_idx + 1],
             loc_prefix \o <<"multiscales", Str(ms_idx)>>, 0, ValidationResult),
           LAMBDA r :
             visit_multiscales_loop(r.s, g, image_model, loc_prefix,
                                    ms_idx + 1, merge(res, r.ret)))

\* visit_image
visit_image(s, g, image_model, loc_prefix) ==
  Bind(dataset_paths(image_model.doc.multiscales, 1), LAMBDA datasets :
   Bind(prefetch_children(Enter(s, "visit_image", g, datasets), g,
                          Append(datasets, <<"labels">>)),
        LAMBDA p :
    Try(visit_multiscales_loop(p.s, g, image_model, loc_prefix, 0, ValidationResult),
        LAMBDA ms :
     Try(check_for_labels_group(ms.s, g, loc_prefix), LAMBDA lbls_check :
       IF ~lbls_check.ret.found
       THEN Ret(lbls_check.s, merge(ms.ret, lbls_check.ret.result))
       ELSE Try(visit_labels_group(lbls_check.s, lbls_check.ret.labels_group,
                                   lbls_check.ret.labels_model,
                                   Append(loc_prefix, "labels"), image_model),
                LAMBDA labels :
                  Ret(labels.s,
                      merge(merge(ms.ret, lbls_check.ret.result), labels.ret)))))))

\* visit_well: the loop over well_model.well.images
RECURSIVE visit_fields_loop(_, _, _, _, _, _)
visit_fields_loop(s, g, well_model, loc_prefix, field_idx, res) ==
  IF field_idx >= Len(well_model.doc.images) THEN Ret(s, res)
  ELSE LET field_image == well_model.doc.images[field_idx + 1]
           field_loc == loc_prefix \o <<"well", "images", Str(field_idx)>>
           next(s1, r) == visit_fields_loop(s1, g, well_model, loc_prefix,
                                            field_idx + 1, r)
       IN Try(get(Sibling(s, "visit_well", g, field_image), g, field_image),
              LAMBDA field_group :
         IF field_group.ret = None
         THEN next(field_group.s,
                   add_error(res, "field_path_not_found", Append(field_loc, "path")))
         ELSE IF ~isinstance_ZarrGroup(field_group.ret)
              THEN next(field_group.s,
                        add_error(res, "field_path_not_group",
                                  Append(field_loc, "path")))
         ELSE Bind(ome_metadata(field_group.ret), LAMBDA field_group_model :
           IF isinstance_Image(field_group_model)
           THEN Try(visit_image(field_group.s, field_group.ret, field_group_model,
                                field_loc),
                    LAMBDA visited : next(visited.s, merge(res, visited.ret)))
           ELSE next(field_group.s,
                     add_error(res, "field_image_invalid", field_loc))))

\* visit_well that goes to the fields without the batched prefetch
Mut_visit_well_no_prefetch(s, g, well_model, loc_prefix) ==
  visit_fields_loop(Enter(s, "visit_well", g, well_model.doc.images), g,
                    well_model, loc_prefix, 0, ValidationResult)

\* visit_well
visit_well(s, g, well_model, loc_prefix) ==
  Bind(prefetch_children(Enter(s, "visit_well", g, well_model.doc.images), g,
                         well_model.doc.images),
       LAMBDA p :
         visit_fields_loop(p.s, g, well_model, loc_prefix, 0, ValidationResult))

\* "/".join(grp) for grp in itertools.product(xs, ys)
product(xs, ys) ==
  [i \in 1..(Len(xs) * Len(ys)) |->
     xs[((i - 1) \div Len(ys)) + 1] \o ys[((i - 1) % Len(ys)) + 1]]

\* _get_field_paths_from_first_well
get_field_paths_from_first_well(s, g, first_well_path) ==
  Try(get(s, g, first_well_path), LAMBDA first_well :
    IF ~isinstance_ZarrGroup(first_well.ret) THEN Ret(first_well.s, <<>>)
    ELSE Bind(OME_VALIDATOR(first_well.ret.meta.attributes), LAMBDA first_well_meta :
           IF isinstance_Well(first_well_meta)
           THEN Ret(first_well.s, first_well_meta.doc.images)
           ELSE Ret(first_well.s, <<>>)))

\* _get_dataset_paths_from_first_field
get_dataset_paths_from_first_field(s, first_well, first_field_path) ==
  Try(get(s, first_well, first_field_path), LAMBDA first_field :
    IF ~isinstance_ZarrGroup(first_field.ret) THEN Ret(first_field.s, <<>>)
    ELSE Bind(OME_VALIDATOR(first_field.ret.meta.attributes), LAMBDA first_field_meta :
           IF ~isinstance_Image(first_field_meta) THEN Ret(first_field.s, <<>>)
           ELSE Ret(first_field.s, first_field_meta.doc.multiscales[1].datasets)))

\* _prefetch_plate_hierarchy that prefetches the wells and looks no further
Mut_prefetch_plate_wells_only(s, g, well_paths) ==
  IF well_paths = <<>> THEN Ret(s, None) ELSE prefetch_children(s, g, well_paths)

\* _prefetch_plate_hierarchy
prefetch_plate_hierarchy(s, g, well_paths) ==
  IF well_paths = <<>> THEN Ret(s, None)
  ELSE
  Bind(prefetch_children(s, g, well_paths), LAMBDA p1 :
   Try(get_field_paths_from_first_well(p1.s, g, well_paths[1]), LAMBDA fields :
     IF fields.ret = <<>> THEN Ret(fields.s, None)
     ELSE
     Bind(prefetch_children(fields.s, g, product(well_paths, fields.ret)), LAMBDA p2 :
      Try(get(p2.s, g, well_paths[1]), LAMBDA first_well :
        IF ~isinstance_ZarrGroup(first_well.ret) THEN Ret(first_well.s, None)
        ELSE
        Try(get_dataset_paths_from_first_field(first_well.s, first_well.ret,
                                               fields.ret[1]),
            LAMBDA datasets :
              IF datasets.ret = <<>> THEN Ret(datasets.s, None)
              ELSE prefetch_children(
                     datasets.s, g,
                     product(product(well_paths, fields.ret), datasets.ret)
                     \o product(product(well_paths, fields.ret),
                                <<<<"labels">>>>)))))))

\* visit_plate: the loop over plate_model.plate.wells
RECURSIVE visit_wells_loop(_, _, _, _, _, _)
visit_wells_loop(s, g, plate_model, loc_prefix, well_idx, res) ==
  IF well_idx >= Len(plate_model.doc.wells) THEN Ret(s, res)
  ELSE LET well == plate_model.doc.wells[well_idx + 1]
           well_loc == loc_prefix \o <<"plate", "wells", Str(well_idx)>>
           next(s1, r) == visit_wells_loop(s1, g, plate_model, loc_prefix,
                                           well_idx + 1, r)
       IN Try(get(Sibling(s, "visit_plate", g, well), g, well), LAMBDA well_group :
         IF well_group.ret = None
         THEN next(well_group.s,
                   add_error(res, "well_path_not_found", Append(well_loc, "path")))
         ELSE IF ~isinstance_ZarrGroup(well_group.ret)
              THEN next(well_group.s,
                        add_error(res, "well_path_not_group",
                                  Append(well_loc, "path")))
         ELSE Bind(ome_metadata(well_group.ret), LAMBDA well_model :
           IF isinstance_Well(well_model)
           THEN Try(visit_well(well_group.s, well_group.ret, well_model, well_loc),
                    LAMBDA visited : next(visited.s, merge(res, visited.ret)))
           ELSE next(well_group.s, add_error(res, "well_invalid", well_loc))))

\* visit_plate
visit_plate(s, g, plate_model, loc_prefix) ==
  Try(prefetch_plate_hierarchy(Enter(s, "visit_plate", g, plate_model.doc.wells),
                               g, plate_model.doc.wells),
      LAMBDA p :
        visit_wells_loop(p.s, g, plate_model, loc_prefix, 0, ValidationResult))

\* visit_series: the loop over ome_model.series
RECURSIVE visit_series_loop(_, _, _, _, _, _)
visit_series_loop(s, g, ome_model, loc_prefix, series_idx, res) ==
  IF series_idx >= Len(ome_model.doc.series) THEN Ret(s, res)
  ELSE LET series_path == ome_model.doc.series[series_idx + 1]
           series_loc == loc_prefix \o <<"series", Str(series_idx)>>
           next(s1, r) == visit_series_loop(s1, g, ome_model, loc_prefix,
                                            series_idx + 1, r)
       IN Try(get(Sibling(s, "visit_series", g, series_path), g, series_path),
              LAMBDA series_group :
         IF series_group.ret = None
         THEN next(series_group.s,
                   add_error(res, "series_path_not_found", series_loc))
         ELSE IF ~isinstance_ZarrGroup(series_group.ret)
              THEN next(series_group.s,
                        add_error(res, "series_path_not_group", series_loc))
         ELSE Bind(ome_metadata(series_group.ret), LAMBDA series_group_meta :
           IF isinstance_Image(series_group_meta)
           THEN Try(visit_image(series_group.s, series_group.ret, series_group_meta,
                                series_loc),
                    LAMBDA visited : next(visited.s, merge(res, visited.ret)))
           ELSE next(series_group.s,
                     add_error(res, "series_invalid_image", series_loc))))

\* visit_series; g is the parent of the OME group
visit_series(s, g, ome_model, loc_prefix) ==
  Bind(prefetch_children(Enter(s, "visit_series", g, ome_model.doc.series), g,
                         ome_model.doc.series),
       LAMBDA p :
         visit_series_loop(p.s, g, ome_model, loc_prefix, 0, ValidationResult))

\* range(1000) of the numbered-directory search
MaxNumbered == 1000

\* visit_bioformats2raw: the search for consecutively numbered directories
RECURSIVE numbered_paths(_, _, _, _)
numbered_paths(s, g, i, found) ==
  IF i >= MaxNumbered THEN Ret(s, found)
  ELSE Try(contains(s, g, <<Str(i)>>), LAMBDA isin :
         IF ~isin.ret THEN Ret(isin.s, found)
         ELSE numbered_paths(isin.s, g, i + 1, Append(found, <<Str(i)>>)))

\* visit_bioformats2raw: the loop over numbered_paths
RECURSIVE visit_numbered_loop(_, _, _, _, _, _)
visit_numbered_loop(s, g, paths, loc_prefix, i, res) ==
  IF i > Len(paths) THEN Ret(s, res)
  ELSE LET path == paths[i]
           image_loc == loc_prefix \o path
           next(s1, r) == visit_numbered_loop(s1, g, paths, loc_prefix, i + 1, r)
       IN Try(get(Sibling(s, "visit_bioformats2raw", g, path), g, path),
              LAMBDA image_group :
         IF ~isinstance_ZarrGroup(image_group.ret)
         THEN next(image_group.s,
                   add_error(res, "bf2raw_path_not_group", image_loc))
         ELSE Bind(ome_metadata(image_group.ret), LAMBDA image_group_meta :
           IF isinstance_Image(image_group_meta)
           THEN Try(visit_image(image_group.s, image_group.ret, image_group_meta,
                                image_loc),
                    LAMBDA visited : next(visited.s, merge(res, visited.ret)))
           ELSE next(image_group.s,
                     add_error(res, "bf2raw_invalid_image", image_loc))))

\* visit_bioformats2raw without an OME group that lists the series: the
\* consecutively numbered directories
visit_numbered(s, g, loc_prefix) ==
  Try(numbered_paths(s, g, 0, <<>>), LAMBDA numbered :
    IF numbered.ret = <<>>
    THEN Ret(numbered.s, add_error(ValidationResult, "bf2raw_no_images", loc_prefix))
    ELSE Bind(prefetch_children(
                Enter(numbered.s, "visit_bioformats2raw", g, numbered.ret), g,
                numbered.ret),
              LAMBDA p2 :
                visit_numbered_loop(p2.s, g, numbered.ret, loc_prefix, 1,
                                    ValidationResult)))

\* visit_bioformats2raw: an exception of visit_series is swallowed and the
\* numbered directories are validated instead
visit_bioformats2raw(s, g, bf2raw_model, loc_prefix) ==
  Bind(prefetch_children(Enter(s, "visit_bioformats2raw", g, <<>>), g,
                         <<<<"OME">>>>),
       LAMBDA p :
    Try(get(p.s, g, <<"OME">>), LAMBDA ome_group :
      IF ~isinstance_ZarrGroup(ome_group.ret)
      THEN visit_numbered(ome_group.s, g, loc_prefix)
      ELSE Bind(OME_VALIDATOR(ome_group.ret.meta.attributes), LAMBDA ome_metadata_ :
        IF ~isinstance_Series(ome_metadata_)
        THEN visit_numbered(ome_group.s, g, loc_prefix)
        ELSE Bind(visit_series(ome_group.s, g, ome_metadata_,
                               Append(loc_prefix, "OME")),
                  LAMBDA series :
                    IF series.exc = None THEN series
                    ELSE visit_numbered(
                           [series.s EXCEPT !.handler = "visit_bioformats2raw"],
                           g, loc_prefix)))))

\* StorageValidatorV04.validate_group once the root document is parsed
dispatch(s, g, metadata) ==
  IF isinstance_LabelImage(metadata) THEN visit_label_image(s, g, metadata, <<>>)
  ELSE IF isinstance_Image(metadata) THEN visit_image(s, g, metadata, <<>>)
  ELSE IF isinstance_LabelsGroup(metadata)
       THEN visit_labels_group(s, g, metadata, <<>>, None)
  ELSE IF isinstance_Plate(metadata) THEN visit_plate(s, g, metadata, <<>>)
  ELSE IF isinstance_Well(metadata) THEN visit_well(s, g, metadata, <<>>)
  ELSE IF isinstance_Bf2Raw(metadata)
       THEN visit_bioformats2raw(s, g, metadata, <<>>)
  ELSE IF isinstance_Series(metadata) THEN visit_series(s, g, metadata, <<>>)
  ELSE Raise(s, Exc("NotImplementedError"))

\* StorageValidatorV04.validate_group (metadata is None)
validate_group(s, g) ==
  Bind(OME_VALIDATOR(g.meta.attributes), LAMBDA metadata :
    IF metadata.exc # None THEN Raise(s, metadata.exc)
    ELSE dispatch(s, g, metadata))

----------------------------------------------------------------------------
(* Specification of the caching wrapper: a handle over a store that other  *)
(* writers may change, driven by any sequence of calls.                    *)

MaxKeys == 2

KA == <<<<"a">>, "zarr.json">>
KB == <<<<"b">>, "zarr.json">>
CacheKeys == {KA, KB}

V1 == [zarr_format |-> 3, node_type |-> "group"]
V2 == [zarr_format |-> 3, node_type |-> "array"]
CacheVals == {V1, V2}

Defaults == {None, Bytes(V1)}

KeyLists == UNION {[1..n -> CacheKeys] : n \in 0..MaxKeys}

Handle == [cache |-> cache, reads |-> reads]

IdleResult ==
  /\ result = ValidationResult
  /\ other = ValidationResult
  /\ nAdded = [r |-> 0, o |-> 0]
IdleWalk == walk = [pc |-> "idle"]

CacheInit ==
  /\ fsmap \in UNION {[D -> CacheVals] : D \in SUBSET CacheKeys}
  /\ cache = EmptyMap
  /\ reads = EmptyMap
  /\ last = [op |-> "init"]
  /\ IdleResult
  /\ IdleWalk

Get(key, default, fail) ==
  LET r == CachedMapper_get(Handle, key, default, IF fail THEN {key} ELSE {})
  IN /\ cache' = r.s.cache
     /\ reads' = r.s.reads
     /\ last' = [op |-> "get", key |-> key, default |-> default,
                 hit |-> key \in DOMAIN cache, ret |-> r.ret, exc |-> r.exc]
     /\ UNCHANGED <<fsmap, result, other, nAdded, walk>>

Contains(key, fail) ==
  LET r == CachedMapper_contains(Handle, key, IF fail THEN {key} ELSE {})
  IN /\ cache' = r.s.cache
     /\ reads' = r.s.reads
     /\ last' = [op |-> "contains", key |-> key, hit |-> key \in DOMAIN cache,
                 ret |-> r.ret, exc |-> r.exc]
     /\ UNCHANGED <<fsmap, result, other, nAdded, walk>>

GetItem(key, fail) ==
  LET r == CachedMapper_getitem(Handle, key, IF fail THEN {key} ELSE {})
  IN /\ cache' = r.s.cache
     /\ reads' = r.s.reads
     /\ last' = [op |-> "getitem", key |-> key, hit |-> key \in DOMAIN cache,
                 ret |-> r.ret, exc |-> r.exc]
     /\ UNCHANGED <<fsmap, result, other, nAdded, walk>>

GetItems(keys, on_error, batchRaises, bad) ==
  LET r == CachedMapper_getitems(Handle, keys, on_error, batchRaises, bad)
  IN /\ cache' = r.s.cache
     /\ reads' = r.s.reads
     /\ last' = [op |-> "getitems", keys |-> keys, on_error |-> on_error,
                 batchRaises |-> batchRaises, bad |-> bad,
                 uncached |-> SelectSeq(keys, LAMBDA k : k \notin DOMAIN cache),
                 ret |-> r.ret, exc |-> r.exc]
     /\ UNCHANGED <<fsmap, result, other, nAdded, walk>>

\* another writer stores bytes under a key of the underlying store
StoreWrite(key, v) ==
  /\ fsmap' = (key :> v) @@ fsmap
  /\ last' = [op |-> "write", key |-> key]
  /\ UNCHANGED <<cache, reads, result, other, nAdded, walk>>

\* another writer deletes a key of the underlying store
StoreDelete(key) ==
  /\ key \in DOMAIN fsmap
  /\ fsmap' = [k \in DOMAIN fsmap \ {key} |-> fsmap[k]]
  /\ last' = [op |-> "delete", key |-> key]
  /\ UNCHANGED <<cache, reads, result, other, nAdded, walk>>

\* inputs that cannot change the outcome of a call are not enumerated: a
\* default or a fetch failure matters for an uncached key only
CacheNext ==
  \/ \E k \in CacheKeys, d \in Defaults, f \in BOOLEAN :
       /\ (f \/ d # None) => k \notin DOMAIN cache
       /\ Get(k, d, f)
  \/ \E k \in CacheKeys \cup {NotAStr}, f \in BOOLEAN :
       (f => k \notin DOMAIN cache) /\ Contains(k, f)
  \/ \E k \in CacheKeys, f \in BOOLEAN :
       (f => k \notin DOMAIN cache) /\ GetItem(k, f)
  \/ \E ks \in KeyLists, oe \in {"omit", "raise"}, b \in BOOLEAN :
       /\ b => Range(ks) \ DOMAIN cache # {}
       /\ \E bad \in SUBSET (IF b THEN Range(ks) \ DOMAIN cache ELSE {}) :
            GetItems(ks, oe, b, bad)
  \/ \E k \in CacheKeys, v \in CacheVals : StoreWrite(k, v)
  \/ \E k \in CacheKeys : StoreDelete(k)

CacheSpec == CacheInit /\ [][CacheNext]_vars

----------------------------------------------------------------------------
(* Specification of ValidationResult: result is the accumulator of a       *)
(* handler, other the result a nested handler returned; nAdded counts the  *)
(* add_error calls that went into each of them.                            *)

MaxItems == 2

ErrTypes == {"dataset_path_not_found", "label_image_invalid"}
Locs == {<<"multiscales", "0">>}

Size(r) == Len(r.errors) + Len(r.warnings)

ResultInit ==
  /\ result = ValidationResult
  /\ other = ValidationResult
  /\ nAdded = [r |-> 0, o |-> 0]
  /\ last = [op |-> "init"]
  /\ fsmap = EmptyMap
  /\ cache = EmptyMap
  /\ reads = EmptyMap
  /\ IdleWalk

AddError(t, loc) ==
  /\ Size(result) < MaxItems
  /\ result' = add_error(result, t, loc)
  /\ nAdded' = [nAdded EXCEPT !.r = @ + 1]
  /\ last' = [op |-> "add_error"]
  /\ UNCHANGED <<other, fsmap, cache, reads, walk>>

AddWarning(t, loc) ==
  /\ Size(result) < MaxItems
  /\ result' = add_warning(result, t, loc)
  /\ last' = [op |-> "add_warning"]
  /\ UNCHANGED <<other, nAdded, fsmap, cache, reads, walk>>

NestedAddError(t, loc) ==
  /\ Size(other) < MaxItems
  /\ other' = add_error(other, t, loc)
  /\ nAdded' = [nAdded EXCEPT !.o = @ + 1]
  /\ last' = [op |-> "nested_add_error"]
  /\ UNCHANGED <<result, fsmap, cache, reads, walk>>

NestedAddWarning(t, loc) ==
  /\ Size(other) < MaxItems
  /\ other' = add_warning(other, t, loc)
  /\ last' = [op |-> "nested_add_warning"]
  /\ UNCHANGED <<result, nAdded, fsmap, cache, reads, walk>>

\* result = result.merge(<nested result>)
Merge ==
  /\ Size(result) + Size(other) <= MaxItems
  /\ result' = merge(result, other)
  /\ other' = ValidationResult
  /\ nAdded' = [r |-> nAdded.r + nAdded.o, o |-> 0]
  /\ last' = [op |-> "merge"]
  /\ UNCHANGED <<fsmap, cache, reads, walk>>

\* validate_zarr_store: a captured model warning is put in front of the warnings
PrependWarning ==
  /\ Size(result) < MaxItems
  /\ result' = [result EXCEPT !.warnings = <<ErrorDetails("model_warning", <<>>)>> \o @]
  /\ last' = [op |-> "prepend_warning"]
  /\ UNCHANGED <<other, nAdded, fsmap, cache, reads, walk>>

\* validate_zarr_store: raise StorageValidationError(result.errors) or return
Report ==
  /\ last' = [op |-> "report", raises |-> ~is_valid(result), errors |-> result.errors]
  /\ UNCHANGED <<result, other, nAdded, fsmap, cache, reads, walk>>

ResultNext ==
  \/ \E t \in ErrTypes, loc \in Locs : AddError(t, loc)
  \/ \E t \in ErrTypes, loc \in Locs : AddWarning(t, loc)
  \/ \E t \in ErrTypes, loc \in Locs : NestedAddError(t, loc)
  \/ \E t \in ErrTypes, loc \in Locs : NestedAddWarning(t, loc)
  \/ Merge
  \/ PrependWarning
  \/ Report

ResultSpec == ResultInit /\ [][ResultNext]_vars

----------------------------------------------------------------------------
(* Specification of validate_zarr_store: a store is a hierarchy of nodes,  *)
(* written in zarr v3 layout (zarr.json) or v2 layout (.zgroup, .zarray,   *)
(* .zattrs), holding a valid OME-Zarr 0.4 hierarchy with at most one node  *)
(* damaged.                                                                *)

MaxBatch == 2

Axes == <<"y", "x">>
Multiscale(datasets) == [axes |-> Axes, datasets |-> datasets]

ImageDoc(keys, datasets) ==
  [Attrs(keys) EXCEPT !.multiscales = <<Multiscale(datasets)>>]
LabelImageDoc(datasets, source) ==
  [ImageDoc({"image-label", "multiscales"}, datasets) EXCEPT !.source = source]
LabelsDoc(labels) == [Attrs({"labels"}) EXCEPT !.labels = labels]
PlateDoc(keys, wells) == [Attrs(keys) EXCEPT !.wells = wells]
WellDoc(images) == [Attrs({"well"}) EXCEPT !.images = images]
Bf2RawDoc(keys) == Attrs(keys)
SeriesDoc(keys, series) == [Attrs(keys) EXCEPT !.series = series]

Grp(attrs) ==
  [kind |-> "group", bad |-> FALSE, attrs |-> attrs, shape |-> <<>>, dtype |-> "none"]
Arr(dtype) ==
  [kind |-> "array", bad |-> FALSE, attrs |-> EmptyAttrs, shape |-> <<4, 4>>,
   dtype |-> dtype]

D0 == <<"0">>
D1 == <<"1">>

\* an image with two resolution levels and two label images
ImageTree ==
  (<<>> :> Grp(ImageDoc({"ome", "multiscales"}, <<D0, D1>>)))
  @@ (<<"0">> :> Arr("float")) @@ (<<"1">> :> Arr("float"))
  @@ (<<"labels">> :> Grp(LabelsDoc(<< <<"a">>, <<"b">> >>)))
  @@ (<<"labels", "a">> :> Grp(LabelImageDoc(<<D0, D1>>, <<"..", "..">>)))
  @@ (<<"labels", "a", "0">> :> Arr("int")) @@ (<<"labels", "a", "1">> :> Arr("int"))
  @@ (<<"labels", "b">> :> Grp(LabelImageDoc(<<D0, D1>>, NoSource)))
  @@ (<<"labels", "b", "0">> :> Arr("int")) @@ (<<"labels", "b", "1">> :> Arr("int"))

\* a plate of two wells with two fields each
PlateTree ==
  (<<>> :> Grp(PlateDoc({"ome", "plate"}, << <<"A", "1">>, <<"B", "1">> >>)))
  @@ [p \in {<<"A", "1">>, <<"B", "1">>} |-> Grp(WellDoc(<<D0, D1>>))]
  @@ [p \in {<<"A", "1", "0">>, <<"A", "1", "1">>,
             <<"B", "1", "0">>, <<"B", "1", "1">>} |->
        Grp(ImageDoc({"multiscales"}, <<D0>>))]
  @@ [p \in {<<"A", "1", "0", "0">>, <<"A", "1", "1", "0">>,
             <<"B", "1", "0", "0">>, <<"B", "1", "1", "0">>} |-> Arr("float")]

\* a bioformats2raw layout of two images, listed by OME/series
Bf2RawTree ==
  (<<>> :> Grp(Bf2RawDoc({"ome", "bioformats2raw.layout"})))
  @@ (<<"OME">> :> Grp(SeriesDoc({"series"}, <<D0, D1>>)))
  @@ [p \in {<<"0">>, <<"1">>} |-> Grp(ImageDoc({"multiscales"}, <<D0>>))]
  @@ [p \in {<<"0", "0">>, <<"1", "0">>} |-> Arr("float")]

Trees == [image |-> ImageTree, plate |-> PlateTree, bf2raw |-> Bf2RawTree]

GroupFaults == {"missing", "wrong_kind", "malformed", "no_attrs", "other_doc"}
ArrayFaults == {"missing", "wrong_kind", "malformed", "dtype", "ndim", "dimension_names"}
RootFaults == {"version"}
NoFault == [path |-> <<>>, kind |-> "none"]

Faults(tree) ==
  {NoFault} \cup
  {f \in [path : DOMAIN tree, kind : GroupFaults \cup ArrayFaults \cup RootFaults] :
     \/ tree[f.path].kind = "group" /\ f.kind \in GroupFaults
     \/ tree[f.path].kind = "array" /\ f.kind \in ArrayFaults
     \/ f.path = <<>> /\ f.kind \in RootFaults}

\* the node after the damage
Damage(node, kind) ==
  CASE kind = "wrong_kind" ->
         IF node.kind = "group" THEN Arr("float") ELSE Grp(EmptyAttrs)
    [] kind = "malformed" -> [node EXCEPT !.bad = TRUE]
    [] kind = "no_attrs" -> [node EXCEPT !.attrs = EmptyAttrs]
    [] kind = "other_doc" ->
         [node EXCEPT !.attrs = SeriesDoc({"series"} \cup (node.attrs.keys \cap {"ome"}),
                                          <<D0>>)]
    [] kind = "version" -> [node EXCEPT !.attrs.version = "0.3"]
    [] kind = "dtype" ->
         [node EXCEPT !.dtype = IF node.dtype = "int" THEN "float" ELSE "int"]
    [] kind = "ndim" -> [node EXCEPT !.shape = <<4>>]
    [] kind = "dimension_names" -> [node EXCEPT !.attrs.dimension_names = <<"x", "y">>,
                                                !.attrs.keys = {"dimension_names"}]
    [] OTHER -> node

Mutate(tree, f) ==
  IF f.kind = "missing" THEN [p \in DOMAIN tree \ {f.path} |-> tree[p]]
  ELSE [tree EXCEPT ![f.path] = Damage(tree[f.path], f.kind)]

\* the dtype strings written by zarr v3 (data_type) and zarr v2 (dtype)
DtypeStr(dtype, fmt) ==
  CASE dtype = "int" /\ fmt = 3 -> <<"u", "i", "n", "t", "8">>
    [] dtype = "int" /\ fmt = 2 -> <<"<", "i", "2">>
    [] dtype = "float" /\ fmt = 3 -> <<"f", "l", "o", "a", "t", "3", "2">>
    [] dtype = "float" /\ fmt = 2 -> <<"<", "f", "4">>
    [] OTHER -> <<>>

\* the metadata files of a hierarchy
StoreOf(tree, fmt) ==
  IF fmt = 3
  THEN [k \in {<<p, "zarr.json">> : p \in DOMAIN tree} |->
          LET n == tree[k[1]]
          IN [zarr_format |-> 3,
              node_type |-> IF n.bad THEN "mystery" ELSE n.kind,
              attributes |-> n.attrs,
              shape |-> n.shape,
              data_type |-> DtypeStr(n.dtype, 3)]]
  ELSE [k \in {<<p, IF tree[p].kind = "group" THEN ".zgroup" ELSE ".zarray">> :
                 p \in DOMAIN tree} |->
          LET n == tree[k[1]]
          IN [zarr_format |-> IF n.bad THEN 99 ELSE 2,
              shape |-> n.shape,
              dtype |-> DtypeStr(n.dtype, 2)]]
       @@ [k \in {<<p, ".zattrs">> : p \in DOMAIN tree} |-> tree[k[1]].attrs]

\* the walk state of a handle: its cache and read counts, the batch fetches
\* issued so far and those that raise, the running handler and the log
WalkState(failing) ==
  [cache |-> cache, reads |-> reads, nbatch |-> 0, failing |-> failing,
   handler |-> "none", log |-> <<>>]

NoReport == [exc |-> None, report |-> ValidationResult]

WalkInit ==
  /\ \E t \in DOMAIN Trees, fmt \in {2, 3} :
       \E f \in Faults(Trees[t]) :
         /\ fsmap = StoreOf(Mutate(Trees[t], f), fmt)
         /\ walk = [pc |-> "init", tree |-> t, fault |-> f, fmt |-> fmt,
                    root |-> None, exc |-> None, report |-> ValidationResult,
                    ref |-> NoReport, failing |-> {}, log |-> <<>>]
  /\ cache = EmptyMap
  /\ reads = EmptyMap
  /\ last = [op |-> "init"]
  /\ IdleResult

\* open_group without the check of the root node type
Mut_open_group_any_node(s) ==
  Try(load_zarr_metadata(s, <<>>), LAMBDA node :
    Ret(node.s, ZarrNode(<<>>, node.ret.val)))

\* open_group(uri) on a path or URI
open_group(s) ==
  Try(load_zarr_metadata(s, <<>>), LAMBDA node :
    IF node.ret.val.node_type # "group" THEN Raise(node.s, Exc("ValueError"))
    ELSE Ret(node.s, ZarrNode(<<>>, node.ret.val)))

\* ZarrGroup.ome_version
ome_version(g) ==
  IF "ome" \in g.meta.attributes.keys THEN g.meta.attributes.version ELSE "<none>"

\* validate_zarr_store up to the choice of the validator
Open ==
  /\ walk.pc = "init"
  /\ \E zarr_group \in {open_group(WalkState({}))} :
       LET version == ome_version(zarr_group.ret)
           exc == IF zarr_group.exc # None THEN zarr_group.exc
                  ELSE IF version = "<none>" THEN Exc("ValueError")
                  ELSE IF version # "0.4" THEN Exc("NotImplementedError")
                  ELSE None
       IN /\ walk' = [walk EXCEPT !.pc = IF exc = None THEN "opened" ELSE "failed",
                                  !.root = zarr_group.ret,
                                  !.exc = exc]
          /\ cache' = zarr_group.s.cache
          /\ reads' = zarr_group.s.reads
  /\ UNCHANGED <<fsmap, last, result, other, nAdded>>

\* the outcome of Validator.validate_group as the caller sees it
Outcome(r) == [exc |-> r.exc, report |-> IF r.exc = None THEN r.ret ELSE ValidationResult]

\* Validator.validate_group(zarr_group); failing is the set of batch fetches
\* (counted in issue order) that raise in the underlying store
Traverse(failing) ==
  /\ walk.pc = "opened"
  /\ \E r \in {validate_group(WalkState(failing), walk.root)} :
     \E ref \in {Outcome(validate_group(WalkState({}), walk.root))} :
       /\ walk' = [walk EXCEPT !.pc = IF OME_VALIDATOR(walk.root.meta.attributes).exc # None
                                      THEN "failed"
                                      ELSE IF r.exc # None THEN "raised"
                                      ELSE "traversed",
                               !.exc = r.exc,
                               !.report = Outcome(r).report,
                               !.ref = ref,
                               !.failing = failing,
                               !.log = r.s.log]
       /\ cache' = r.s.cache
       /\ reads' = r.s.reads
  /\ UNCHANGED <<fsmap, last, result, other, nAdded>>

\* the end of validate_zarr_store: raise StorageValidationError or return
Finish ==
  /\ walk.pc = "traversed"
  /\ walk' = [walk EXCEPT !.pc = IF is_valid(walk.report) THEN "valid" ELSE "invalid",
                          !.exc = IF is_valid(walk.report) THEN None
                                  ELSE Exc("StorageValidationError")]
  /\ UNCHANGED <<fsmap, cache, reads, last, result, other, nAdded>>

WalkNext ==
  \/ Open
  \/ \E failing \in SUBSET (1..MaxBatch) : Traverse(failing)
  \/ Finish

WalkSpec == WalkInit /\ [][WalkNext]_vars

\* C2: after every add_error, add_warning and merge, is_valid holds exactly
\* when no error was recorded into the result (its errors list is empty), a
\* step that records a warning leaves is_valid as it was, and the final
\* report raises exactly when an error was recorded.
C2_ValidIffNoErrors ==
  [][/\ Len(result'.errors) = nAdded'.r
     /\ is_valid(result') <=> (nAdded'.r = 0)
     /\ is_valid(other') <=> (nAdded'.o = 0)
     /\ last'.op \in {"add_warning", "prepend_warning"} =>
          is_valid(result') = is_valid(result)
     /\ last'.op = "report" => (last'.raises <=> nAdded'.r > 0)]_vars

\* warnings were recorded directly and through a merge, and the result is
\* reported valid
C2_Witness ==
  /\ last.op = "report" /\ ~last.raises
  /\ Len(result.warnings) >= 2
  /\ nAdded.r = 0

----------------------------------------------------------------------------
(* Properties of the caching wrapper *)

ReadCount(cnt, k) == IF k \in DOMAIN cnt THEN cnt[k] ELSE 0

\* C7: every key the underlying store delivered a result for (bytes or
\* "not found") is in the cache after the call, and no call reads a key from
\* the underlying store that was in the cache when the call began.
C7_MemoizedNeverRefetched ==
  [][/\ \A k \in DOMAIN cache : ReadCount(reads', k) = ReadCount(reads, k)
     /\ \A k \in DOMAIN reads' :
          ReadCount(reads', k) > ReadCount(reads, k) => k \in DOMAIN cache']_vars

\* a "not found" result is served from the cache although the store holds the
\* key by now: the key was read once only
C7_Witness ==
  /\ last.op = "get" /\ last.hit /\ last.exc = None /\ last.ret = None
  /\ last.key \in DOMAIN fsmap
  /\ ReadCount(reads, last.key) = 1

\* C8: no call removes or replaces a cache entry, and a get of a cached key
\* returns the entry (or raises it) whatever the underlying store holds now.
C8_CacheAppendOnly ==
  [][/\ \A k \in DOMAIN cache : k \in DOMAIN cache' /\ cache'[k] = cache[k]
     /\ (last'.op = "get" /\ last'.key \in DOMAIN cache) =>
          IF cache[last'.key].tag = "exc"
          THEN last'.exc = cache[last'.key]
          ELSE last'.exc = None /\ last'.ret = cache[last'.key]]_vars

\* the store was overwritten after the first read and get still returns the
\* bytes first observed
C8_Witness ==
  /\ last.op = "get" /\ last.hit /\ last.ret.tag = "bytes"
  /\ last.key \in DOMAIN fsmap
  /\ Bytes(fsmap[last.key]) # last.ret
  /\ cache[last.key] = last.ret

\* C9: getitems with on_error='omit' returns only keys the store holds bytes
\* for, each mapped to bytes.
C9_OmitReturnsOnlyStoredBytes ==
  (last.op = "getitems" /\ last.on_error = "omit" /\ last.exc = None) =>
    \A k \in DOMAIN last.ret : last.ret[k].tag = "bytes" /\ k \in DOMAIN fsmap

\* C10: when the batch fetch raises, every uncached requested key is fetched
\* individually: a key the store delivers is returned and cached, a key whose
\* fetch raises is omitted under 'omit', and under 'raise' the call raises.
C10_FallbackPerKey ==
  (last.op = "getitems" /\ last.batchRaises) =>
    LET unc == Range(last.uncached)
        failing == unc \cap last.bad
    IN /\ (last.on_error = "raise" /\ failing # {}) => last.exc # None
       /\ (last.on_error = "omit" \/ failing = {}) =>
            /\ last.exc = None
            /\ \A k \in unc :
                 /\ (k \notin last.bad /\ k \in DOMAIN fsmap) =>
                      /\ k \in DOMAIN last.ret
                      /\ last.ret[k] = Bytes(fsmap[k])
                      /\ cache[k] = Bytes(fsmap[k])
                 /\ k \in last.bad => k \notin DOMAIN last.ret

\* a failed batch in which one key is still delivered and another is omitted
C10_Witness ==
  /\ last.op = "getitems" /\ last.batchRaises /\ last.on_error = "omit"
  /\ \E k1, k2 \in Range(last.uncached) :
       /\ k1 \in DOMAIN last.ret /\ last.ret[k1].tag = "bytes"
       /\ k2 \in last.bad /\ k2 \notin DOMAIN last.ret

----------------------------------------------------------------------------
(* Properties of the storage walk *)

Traversed == walk.pc \in {"traversed", "raised"}
Events(ev) == {i \in 1..Len(walk.log) : walk.log[i].ev = ev}

\* the listed child k of the list event i is reached by its handler's loop
Visited(i, k) ==
  \E j \in Events("sibling") :
    /\ j > i
    /\ walk.log[j].handler = walk.log[i].handler
    /\ walk.log[j].group = walk.log[i].group
    /\ walk.log[j].key = k

\* C1: the validator never aborts on a problem child: the traversal returns
\* a result, and every child listed by a parent's metadata (dataset, label,
\* well, field, series) is visited by its handler, whatever is wrong with a
\* sibling.
C1_EverySiblingVisited ==
  Traversed =>
    /\ walk.pc = "traversed"
    /\ \A i \in Events("list") :
         \A k \in Range(walk.log[i].children) : Visited(i, k)

\* the paths named by the metadata of an undamaged hierarchy: datasets,
\* labels, wells, fields and series (the labels and OME groups are found by
\* name, no metadata names them)
Referenced(tree) == DOMAIN tree \ {<<>>, <<"labels">>, <<"OME">>}

C4_CompleteReportOrEarlyError ==
  walk.pc \in {"init", "opened", "failed", "traversed", "valid", "invalid"}

\* C5: for the same store contents the report (errors and warnings, in
\* order) is the same whichever batch fetches succeed, fail or fall back to
\* sequential fetches: it equals the report of the walk in which every batch
\* fetch succeeds.
C5_ReportIndependentOfFetches ==
  Traversed => walk.ref = [exc |-> walk.exc, report |-> walk.report]

\* the prefetch event i precedes the access event j, is issued by the same
\* handler, and covers the path accessed
\* the invocation a logged call belongs to: the latest earlier entry of its
\* handler (a handler never runs inside itself)
Owner(j) ==
  LET ls == {l \in Events("list") : l < j /\ walk.log[l].handler = walk.log[j].handler}
  IN IF ls = {} THEN 0 ELSE CHOOSE l \in ls : \A m \in ls : m <= l

Covers(i, j) ==
  /\ i < j
  /\ Owner(i) = Owner(j)
  /\ walk.log[i].handler = walk.log[j].handler
  /\ \E k \in Range(walk.log[i].keys) :
       walk.log[i].group \o k = walk.log[j].group \o walk.log[j].key

Prefetched(j) == \E i \in Events("prefetch") : Covers(i, j)

\* every invocation of one of the handlers issues exactly one prefetch
OnePrefetch(handlers) ==
  \A l \in Events("list") :
    walk.log[l].handler \in handlers
    => Cardinality({i \in Events("prefetch") : Owner(i) = l}) = 1

Handlers ==
  {"visit_image", "visit_labels_group", "visit_label_image", "visit_plate",
   "visit_well", "visit_bioformats2raw", "visit_series"}

SelectType(errors, type) == SelectSeq(errors, LAMBDA e : e.type = type)

\* C11: when the array of one dataset of a valid image is absent, the walk
\* returns a report that is not valid and holds exactly one error, of kind
\* dataset_path_not_found, located at multiscales.0.datasets.<j>.path.
C11_OneDatasetPathNotFound ==
  /\ Traversed
  /\ walk.tree = "image"
  /\ walk.fault.kind = "missing"
  /\ walk.fault.path \in {D0, D1}
  => /\ walk.pc = "traversed"
     /\ ~is_valid(walk.report)
     /\ walk.report.errors =
          <<ErrorDetails("dataset_path_not_found",
                         <<"multiscales", "0", "datasets", walk.fault.path[1], "path">>)>>

\* the label arrays of the image hierarchy and the location of their paths
LabelArrays == {p \in DOMAIN ImageTree : Len(p) = 3}
LabelArrayLoc(p) ==
  <<"labels", "labels", IF p[2] = "a" THEN "0" ELSE "1",
    "multiscales", "0", "datasets", p[3], "path">>

PlateLookahead ==
  {w \o f \o d : w \in {<<"A", "1">>, <<"B", "1">>}, f \in {D0, D1},
                 d \in {D0, <<"labels">>}}

----------------------------------------------------------------------------
(* Specification of the label/parent count comparison of                   *)
(* visit_labels_group: a label image and its parent image are given by the *)
(* dataset counts of their multiscales.                                    *)

MaxMs == 2
MaxDs == 3

IdleStore ==
  /\ fsmap = EmptyMap
  /\ cache = EmptyMap
  /\ reads = EmptyMap
  /\ last = [op |-> "init"]

\* the dataset counts of the multiscales of an image: one to MaxMs
\* multiscales of one to MaxDs datasets
CountLists == UNION {[1..n -> 1..MaxDs] : n \in 1..MaxMs}

\* an Image model whose multiscales have the given numbers of datasets
ImageOfCounts(counts) ==
  [exc |-> None, tag |-> "image",
   doc |-> [ImageDoc({"multiscales"}, <<>>) EXCEPT
              !.multiscales =
                [i \in 1..Len(counts) |->
                   Multiscale([j \in 1..counts[i] |-> <<Str(j - 1)>>])]]]

CountLoc == <<"labels", "labels", "0">>

CountInit ==
  /\ \E l \in CountLists, p \in CountLists :
       walk = [pc |-> "counts", label |-> l, parent |-> p,
               report |-> ValidationResult]
  /\ IdleStore
  /\ IdleResult

\* the comparison of visit_labels_group for one label image
CompareCounts ==
  /\ walk.pc = "counts"
  /\ walk' = [walk EXCEPT
                !.pc = "compared",
                !.report = label_counts(ImageOfCounts(walk.label),
                                        ImageOfCounts(walk.parent),
                                        CountLoc, ValidationResult)]
  /\ UNCHANGED <<fsmap, cache, reads, last, result, other, nAdded>>

CountNext == CompareCounts

CountSpec == CountInit /\ [][CountNext]_vars

Min(a, b) == IF a < b THEN a ELSE b

CountErrors ==
  {walk.report.errors[i].type : i \in 1..Len(walk.report.errors)}
    \cap {"label_multiscale_count_mismatch", "label_dataset_count_mismatch"}

----------------------------------------------------------------------------
(* Specification of one open store handle: open_group on a store root,     *)
(* then any sequence of child accesses, prefetches and ome_metadata calls  *)
(* on the node objects obtained.  walk.objs is the sequence of the node    *)
(* objects constructed so far; an object is identified by its index.       *)

MaxObjs == 3

\* the metadata files a store root can hold
RootLayouts ==
  [zarr_json : {"absent", "group", "array", "mystery"},
   zgroup : {"absent", "ok", "bad"},
   zarray : {"absent", "ok", "bad"},
   zattrs : {"absent", "present"}]

\* the children are written in the zarr format of the root
ChildFormat(l) == IF l.zarr_json = "absent" THEN 2 ELSE 3

AttrsV3 == ImageDoc({"multiscales"}, <<D0>>)
AttrsV2 == LabelsDoc(<< <<"g">> >>)

\* the files of a node of the given kind at a path, in one zarr format
NodeFiles(path, kind, attrs, fmt) ==
  IF fmt = 3
  THEN (<<path, "zarr.json">> :>
          [zarr_format |-> 3, node_type |-> kind, attributes |-> attrs,
           shape |-> IF kind = "array" THEN <<4, 4>> ELSE <<>>,
           data_type |-> DtypeStr(IF kind = "array" THEN "int" ELSE "none", 3)])
  ELSE (<<path, IF kind = "array" THEN ".zarray" ELSE ".zgroup">> :>
          [zarr_format |-> 2,
           shape |-> IF kind = "array" THEN <<4, 4>> ELSE <<>>,
           dtype |-> DtypeStr(IF kind = "array" THEN "int" ELSE "none", 2)])
       @@ (<<path, ".zattrs">> :> attrs)

\* the store of a root layout: the root files and the children g (a group)
\* and a (an array)
StoreOfLayout(l) ==
  (IF l.zarr_json = "absent" THEN EmptyMap
   ELSE (<<<<>>, "zarr.json">> :>
           [zarr_format |-> 3, node_type |-> l.zarr_json, attributes |-> AttrsV3,
            shape |-> <<>>, data_type |-> <<>>]))
  @@ (IF l.zgroup = "absent" THEN EmptyMap
      ELSE (<<<<>>, ".zgroup">> :>
              [zarr_format |-> IF l.zgroup = "bad" THEN 99 ELSE 2,
               shape |-> <<>>, dtype |-> <<>>]))
  @@ (IF l.zarray = "absent" THEN EmptyMap
      ELSE (<<<<>>, ".zarray">> :>
              [zarr_format |-> IF l.zarray = "bad" THEN 99 ELSE 2,
               shape |-> <<4, 4>>, dtype |-> DtypeStr("int", 2)]))
  @@ (IF l.zattrs = "absent" THEN EmptyMap ELSE (<<<<>>, ".zattrs">> :> AttrsV2))
  @@ NodeFiles(<<"g">>, "group", AttrsV3, ChildFormat(l))
  @@ NodeFiles(<<"a">>, "array", EmptyAttrs, ChildFormat(l))

\* the roots written in one zarr format: zarr.json alone, or one of .zgroup
\* and .zarray with .zattrs, or no metadata at all
NodeLayouts ==
  {l \in RootLayouts :
     /\ Cardinality({f \in {"zarr_json", "zgroup", "zarray"} : l[f] # "absent"}) <= 1
     /\ l.zattrs = "present" <=> l.zarr_json = "absent"}

ChildKeys == {<<"g">>, <<"a">>, <<"missing">>}

Unset == [tag |-> "unset"]

\* ZarrGroup(store, path, meta) / ZarrArray(store, path, meta): a new object
NewNode(objs, node) ==
  Append(objs, [path |-> node.path, meta |-> node.meta, ome |-> Unset, nparse |-> 0])

\* ZarrMetadata.ome_metadata for attributes without an "ome" key
ZarrMetadata_ome_metadata(meta) == OME_VALIDATOR(meta.attributes)

\* ome_metadata that parses the attributes on every call
Mut_ome_metadata_reparse(obj) ==
  LET m == ZarrMetadata_ome_metadata(obj.meta)
  IN IF m.exc # None THEN [obj |-> obj, ret |-> None, exc |-> m.exc]
     ELSE [obj |-> [obj EXCEPT !.ome = m, !.nparse = @ + 1], ret |-> m, exc |-> None]

\* ZarrGroup.ome_metadata: parsed when the object has no _ome_metadata yet
ZarrGroup_ome_metadata(obj) ==
  IF obj.ome = Unset
  THEN LET m == ZarrMetadata_ome_metadata(obj.meta)
       IN IF m.exc # None THEN [obj |-> obj, ret |-> None, exc |-> m.exc]
          ELSE [obj |-> [obj EXCEPT !.ome = m, !.nparse = @ + 1],
                ret |-> m, exc |-> None]
  ELSE [obj |-> obj, ret |-> obj.ome, exc |-> None]

NodeInit ==
  /\ \E l \in NodeLayouts : fsmap = StoreOfLayout(l)
  /\ cache = EmptyMap
  /\ reads = EmptyMap
  /\ last = [op |-> "init"]
  /\ walk = [pc |-> "closed", objs |-> <<>>]
  /\ IdleResult

\* open_group(uri): ZarrNode(cached_mapper) loads the root metadata
OpenGroup ==
  /\ walk.pc = "closed"
  /\ \E r \in {open_group(WalkState({}))} :
       /\ walk' = [pc |-> IF r.exc = None THEN "open" ELSE "failed",
                   objs |-> IF r.exc = None THEN NewNode(<<>>, r.ret) ELSE <<>>]
       /\ last' = [op |-> "open_group", exc |-> r.exc,
                   ret |-> IF r.exc = None THEN 1 ELSE 0]
       /\ cache' = r.s.cache
       /\ reads' = r.s.reads
  /\ UNCHANGED <<fsmap, result, other, nAdded>>

\* open_group(group) on a ZarrGroup object
Reopen(i) ==
  /\ walk.pc = "open"
  /\ isinstance_ZarrGroup(walk.objs[i])
  /\ last' = [op |-> "reopen", arg |-> i, exc |-> None, ret |-> i]
  /\ UNCHANGED <<walk, fsmap, cache, reads, result, other, nAdded>>

\* group.prefetch_children(keys) on the object i
Prefetch(i, keys, fails) ==
  /\ walk.pc = "open"
  /\ isinstance_ZarrGroup(walk.objs[i])
  /\ \E r \in {prefetch_children(WalkState(IF fails THEN {1} ELSE {}),
                                 walk.objs[i], keys)} :
       /\ cache' = r.s.cache
       /\ reads' = r.s.reads
  /\ last' = [op |-> "prefetch", arg |-> i, exc |-> None, ret |-> 0]
  /\ UNCHANGED <<walk, fsmap, result, other, nAdded>>

\* group[key] on the object i
GetChild(i, key) ==
  /\ walk.pc = "open"
  /\ Len(walk.objs) < MaxObjs
  /\ isinstance_ZarrGroup(walk.objs[i])
  /\ \E r \in {getitem(WalkState({}), walk.objs[i], key)} :
       /\ walk' = [walk EXCEPT !.objs = IF r.exc = None THEN NewNode(@, r.ret) ELSE @]
       /\ last' = [op |-> "getitem", arg |-> i, path |-> walk.objs[i].path \o key,
                   exc |-> r.exc,
                   ret |-> IF r.exc = None THEN Len(walk.objs) + 1 ELSE 0]
       /\ cache' = r.s.cache
       /\ reads' = r.s.reads
  /\ UNCHANGED <<fsmap, result, other, nAdded>>

\* group.ome_metadata() on the object i
OmeMetadata(i) ==
  /\ walk.pc = "open"
  /\ isinstance_ZarrGroup(walk.objs[i])
  /\ \E r \in {ZarrGroup_ome_metadata(walk.objs[i])} :
       /\ walk' = [walk EXCEPT !.objs[i] = r.obj]
       /\ last' = [op |-> "ome_metadata", arg |-> i, exc |-> r.exc, ret |-> r.ret]
  /\ UNCHANGED <<fsmap, cache, reads, result, other, nAdded>>

NodeNext ==
  \/ OpenGroup
  \/ \E i \in 1..Len(walk.objs) : Reopen(i)
  \/ \E i \in 1..Len(walk.objs), fails \in BOOLEAN :
       Prefetch(i, << <<"g">>, <<"a">>, <<"missing">> >>, fails)
  \/ \E i \in 1..Len(walk.objs), key \in ChildKeys : GetChild(i, key)
  \/ \E i \in 1..Len(walk.objs) : OmeMetadata(i)

NodeSpec == NodeInit /\ [][NodeNext]_vars

----------------------------------------------------------------------------
(* Specification of the metadata load of one node: ZarrNode(store) on a    *)
(* root holding any combination of zarr.json, .zgroup, .zarray, .zattrs.   *)

LoadInit ==
  /\ \E l \in RootLayouts : fsmap = StoreOfLayout(l)
  /\ cache = EmptyMap
  /\ reads = EmptyMap
  /\ last = [op |-> "init"]
  /\ walk = [pc |-> "unloaded"]
  /\ IdleResult

\* ZarrNode(store): self._metadata = _load_zarr_metadata(store, "")
LoadRoot ==
  /\ walk.pc = "unloaded"
  /\ \E r \in {load_zarr_metadata(WalkState({}), <<>>)} :
       /\ last' = [op |-> "load", ret |-> r.ret, exc |-> r.exc]
       /\ cache' = r.s.cache
       /\ reads' = r.s.reads
  /\ walk' = [pc |-> "loaded"]
  /\ UNCHANGED <<fsmap, result, other, nAdded>>

LoadNext == LoadRoot

LoadSpec == LoadInit /\ [][LoadNext]_vars

----------------------------------------------------------------------------
(* Properties of one open store handle *)

RootHas(name) == <<<<>>, name>> \in DOMAIN fsmap
RootFile(name) == fsmap[<<<<>>, name>>]

\* the one metadata shape of a zarr v2 node file and its .zattrs
NormalizedV2(file, node_type) ==
  [zarr_format |-> RootFile(file).zarr_format,
   node_type |-> node_type,
   attributes |-> IF RootHas(".zattrs") THEN RootFile(".zattrs") ELSE EmptyAttrs,
   shape |-> RootFile(file).shape,
   data_type |-> RootFile(file).dtype]

\* the first format present at the root, in the order zarr.json, .zgroup,
\* .zarray
FirstPresent ==
  IF RootHas("zarr.json") THEN RootFile("zarr.json")
  ELSE IF RootHas(".zgroup") THEN NormalizedV2(".zgroup", "group")
  ELSE NormalizedV2(".zarray", "array")

RootMetadataPresent == RootHas("zarr.json") \/ RootHas(".zgroup") \/ RootHas(".zarray")

\* C17: loading the metadata of a path tries zarr.json, then .zgroup with
\* .zattrs, then .zarray with .zattrs, and returns the first one present in
\* the one metadata shape (a present but malformed document is a validation
\* error); when none is present the load raises FileNotFoundError.
C17_LoadOrder ==
  last.op = "load" =>
    [ret |-> last.ret, exc |-> last.exc] =
      IF ~RootMetadataPresent THEN [ret |-> None, exc |-> Exc("FileNotFoundError")]
      ELSE IF ZarrMetadata_valid(FirstPresent)
           THEN [ret |-> Bytes(FirstPresent), exc |-> None]
           ELSE [ret |-> None, exc |-> Exc("ValidationError")]

\* a root holding all three formats was loaded from zarr.json
C17_Witness ==
  /\ last.op = "load"
  /\ RootHas("zarr.json") /\ RootHas(".zgroup") /\ RootHas(".zarray")
  /\ RootHas(".zattrs")
  /\ last.exc = None
  /\ last.ret.val.zarr_format = 3

\* C16: open_group fails when the root has no metadata (FileNotFoundError)
\* or is not a group (ValueError; a malformed root document is a validation
\* error); otherwise it returns the group of the root path; open_group on an
\* open group returns that same group object.
C16_OpenGroup ==
  /\ last.op = "open_group" =>
       IF ~RootMetadataPresent
       THEN last.exc = Exc("FileNotFoundError") /\ walk.objs = <<>>
       ELSE IF ~ZarrMetadata_valid(FirstPresent)
       THEN last.exc = Exc("ValidationError") /\ walk.objs = <<>>
       ELSE IF FirstPresent.node_type # "group"
       THEN last.exc = Exc("ValueError") /\ walk.objs = <<>>
       ELSE /\ last.exc = None /\ last.ret = 1 /\ Len(walk.objs) = 1
            /\ walk.objs[1].path = <<>>
            /\ walk.objs[1].meta = FirstPresent
            /\ isinstance_ZarrGroup(walk.objs[1])
  /\ last.op = "reopen" => last.exc = None /\ last.ret = last.arg

\* a root array was refused
C16_Witness ==
  /\ last.op = "open_group"
  /\ RootMetadataPresent /\ ZarrMetadata_valid(FirstPresent)
  /\ FirstPresent.node_type = "array"
  /\ last.exc = Exc("ValueError")

\* a child group obtained from the root was reopened
C16_WitnessReopen ==
  /\ last.op = "reopen" /\ last.arg > 1 /\ last.ret = last.arg

\* C15 as stated: accessing a child path again through the same handle
\* yields the node object created by the first access.
C15_NodesCachedPerHandle ==
  [][last'.op = "getitem" /\ last'.exc = None
       /\ (\E j \in 1..Len(walk.objs) : walk.objs[j].path = last'.path)
     => last'.ret \in 1..Len(walk.objs)
        /\ walk.objs[last'.ret].path = last'.path]_vars

\* C15: no node object is built before a path is accessed (only open_group
\* and a child access build one, a prefetch builds none); every child access
\* builds a new node object, and a repeated access to a path builds it with
\* the metadata of the first access without reading the store again; what
\* is cached per node object is the parsed OME model, parsed at most once.
C15_NodesPerAccess ==
  [][/\ Len(walk'.objs) > Len(walk.objs) => last'.op \in {"open_group", "getitem"}
     /\ last'.op = "getitem" /\ last'.exc = None
        => /\ last'.ret = Len(walk.objs) + 1
           /\ walk'.objs = Append(walk.objs, walk'.objs[last'.ret])
           /\ walk'.objs[last'.ret].path = last'.path
           /\ walk'.objs[last'.ret].ome = Unset
           /\ \A j \in 1..Len(walk.objs) :
                walk.objs[j].path = last'.path
                => /\ walk'.objs[last'.ret].meta = walk.objs[j].meta
                   /\ reads' = reads
     /\ \A i \in 1..Len(walk'.objs) : walk'.objs[i].nparse <= 1
     /\ last'.op = "ome_metadata" /\ walk.objs[last'.arg].ome # Unset
        => last'.ret = walk.objs[last'.arg].ome /\ walk' = walk]_vars

\* a child path was accessed a second time and a second object was built
C15_Witness ==
  /\ last.op = "getitem" /\ last.exc = None
  /\ \E j \in 1..(last.ret - 1) :
       /\ walk.objs[j].path = last.path
       /\ walk.objs[j].ome # Unset
  /\ walk.objs[last.ret].ome = Unset

----------------------------------------------------------------------------
(* Specification of the choice of the document kind: a dict with any set   *)
(* of the discriminating keys is validated as a v0.4 group document or as  *)
(* the "ome" value of a v0.5 document.                                     *)

KindKeys ==
  {"image-label", "multiscales", "plate", "bioformats2raw.layout",
   "bioformats2raw_layout", "well", "labels", "series"}

\* _discriminate_ome_v05_metadata with the plate test before the image test
Mut_discriminate_plate_first(v) ==
  IF "image-label" \in v.keys THEN "label-image"
  ELSE IF "plate" \in v.keys THEN "plate"
  ELSE IF "multiscales" \in v.keys THEN "image"
  ELSE IF "bioformats2raw.layout" \in v.keys \/ "bioformats2raw_layout" \in v.keys
       THEN "bf2raw"
  ELSE IF "well" \in v.keys THEN "well"
  ELSE IF "labels" \in v.keys THEN "labels-group"
  ELSE IF "series" \in v.keys THEN "series"
  ELSE NoTag

\* _discriminate_ome_v05_metadata on a dict
discriminate_ome_v05_metadata(v) ==
  IF "image-label" \in v.keys THEN "label-image"
  ELSE IF "multiscales" \in v.keys THEN "image"
  ELSE IF "plate" \in v.keys THEN "plate"
  ELSE IF "bioformats2raw.layout" \in v.keys \/ "bioformats2raw_layout" \in v.keys
       THEN "bf2raw"
  ELSE IF "well" \in v.keys THEN "well"
  ELSE IF "labels" \in v.keys THEN "labels-group"
  ELSE IF "series" \in v.keys THEN "series"
  ELSE NoTag

\* Discriminator(...) of the tagged union: a dict without a tag is rejected
\* (union_tag_not_found), otherwise the model class of the tag is chosen
Discriminator(tag) ==
  IF tag = NoTag THEN [tag |-> NoTag, exc |-> Exc("ValidationError")]
  ELSE [tag |-> tag, exc |-> None]

KindInit ==
  /\ \E version \in {"0.4", "0.5"}, keys \in SUBSET KindKeys :
       walk = [pc |-> "dict", version |-> version, doc |-> [keys |-> keys]]
  /\ last = [op |-> "init"]
  /\ IdleStore
  /\ IdleResult

\* TypeAdapter(v04.OMEZarrGroupJSON).validate_python(doc)
DiscriminateV04 ==
  /\ walk.pc = "dict" /\ walk.version = "0.4"
  /\ walk' = [walk EXCEPT !.pc = "tagged"]
  /\ last' = [op |-> "validate"] @@ Discriminator(discriminate_ome_v04_metadata(walk.doc))
  /\ UNCHANGED <<fsmap, cache, reads, result, other, nAdded>>

\* TypeAdapter(v05.OMEMetadata).validate_python(doc)
DiscriminateV05 ==
  /\ walk.pc = "dict" /\ walk.version = "0.5"
  /\ walk' = [walk EXCEPT !.pc = "tagged"]
  /\ last' = [op |-> "validate"] @@ Discriminator(discriminate_ome_v05_metadata(walk.doc))
  /\ UNCHANGED <<fsmap, cache, reads, result, other, nAdded>>

KindNext == DiscriminateV04 \/ DiscriminateV05

KindSpec == KindInit /\ [][KindNext]_vars

\* the kinds in priority order, each with the keys that select it
KindOf(priority, keys) ==
  LET hits == {i \in 1..Len(priority) : priority[i].keys \cap keys # {}}
  IN IF hits = {} THEN NoTag
     ELSE priority[CHOOSE i \in hits : \A j \in hits : i <= j].tag

ListedPriority ==
  << [keys |-> {"image-label"}, tag |-> "label-image"],
     [keys |-> {"multiscales"}, tag |-> "image"],
     [keys |-> {"plate"}, tag |-> "plate"],
     [keys |-> {"bioformats2raw.layout"}, tag |-> "bf2raw"],
     [keys |-> {"well"}, tag |-> "well"],
     [keys |-> {"labels"}, tag |-> "labels-group"],
     [keys |-> {"series"}, tag |-> "series"] >>

CodePriority ==
  [ListedPriority EXCEPT ![4].keys = {"bioformats2raw.layout", "bioformats2raw_layout"}]

KindDecidedBy(priority) ==
  walk.pc = "tagged" =>
    /\ last.tag = KindOf(priority, walk.doc.keys)
    /\ last.exc = IF last.tag = NoTag THEN Exc("ValidationError") ELSE None

\* C18 as stated: the kind is the first of image-label, multiscales, plate,
\* bioformats2raw.layout, well, labels, series among the keys; a dict with
\* none of these keys is rejected.
C18_KindByListedKeys == KindDecidedBy(ListedPriority)

\* C18: for v0.4 and v0.5 alike the kind is the first match in the order
\* image-label, multiscales, plate, bioformats2raw.layout or its field name
\* bioformats2raw_layout, well, labels, series; a dict with none of these
\* keys is rejected.
C18_KindByKeys == KindDecidedBy(CodePriority)

\* a v0.5 dict holding the field name bioformats2raw_layout and well, labels
\* and series is a Bf2Raw document
C18_Witness ==
  /\ walk.pc = "tagged" /\ walk.version = "0.5"
  /\ walk.doc.keys = {"bioformats2raw_layout", "well", "labels", "series"}
  /\ last.tag = "bf2raw" /\ last.exc = None

----------------------------------------------------------------------------
(* Specification of the construction of a v0.5 Multiscale: axes of any     *)
(* types, uniquely named, and one dataset whose scale transformation has   *)
(* ndim entries.                                                           *)

MaxAxes == 6

\* the values of Axis.type: the three known types, a missing type (null)
\* and an unrecognised string, both CustomAxis
AxisTypes == {"space", "time", "channel", "null", "other"}

\* the axes named by their position
AxesOfTypes(types) == [i \in 1..Len(types) |-> [name |-> Str(i), type |-> types[i]]]

\* type_order.get(ax.type, 3)
type_order(type) ==
  CASE type = "time" -> 0
    [] type = "channel" -> 1
    [] type = "null" -> 1
    [] type = "space" -> 2
    [] OTHER -> 3

\* sorted(axes, key=...): a stable sort
RECURSIVE insert_sorted(_, _)
insert_sorted(sorted, ax) ==
  IF sorted = <<>> THEN <<ax>>
  ELSE IF type_order(sorted[Len(sorted)].type) <= type_order(ax.type)
       THEN Append(sorted, ax)
       ELSE Append(insert_sorted(SubSeq(sorted, 1, Len(sorted) - 1), ax),
                   sorted[Len(sorted)])

RECURSIVE sorted_axes(_)
sorted_axes(axes) ==
  IF axes = <<>> THEN <<>>
  ELSE insert_sorted(sorted_axes(SubSeq(axes, 1, Len(axes) - 1)), axes[Len(axes)])

CountType(axes, type) == Cardinality({i \in 1..Len(axes) : axes[i].type = type})

\* _validate_axes_list: TRUE when no ValueError is raised
validate_axes_list(axes) ==
  /\ Cardinality({axes[i].name : i \in 1..Len(axes)}) = Len(axes)
  /\ CountType(axes, "space") \in 2..3
  /\ CountType(axes, "time") <= 1
  /\ CountType(axes, "channel") <= 1
  /\ axes = sorted_axes(axes)

\* AxesList: Len(min_length=2, max_length=5) and _validate_axes_list
AxesList_valid(axes) == Len(axes) \in 2..5 /\ validate_axes_list(axes)

\* Multiscale._post_validate for one dataset with one scale transformation
post_validate(axes, ndim) == ndim = Len(axes)

\* Multiscale(axes=..., datasets=[...]): TRUE when construction succeeds
Multiscale_construct(axes, ndim) ==
  /\ AxesList_valid(axes)
  /\ ndim >= 2
  /\ post_validate(axes, ndim)

ConstructInit ==
  /\ \E n \in 1..MaxAxes : \E types \in [1..n -> AxisTypes], d \in {0, 1} :
       walk = [pc |-> "input", axes |-> AxesOfTypes(types), ndim |-> n + d, ok |-> FALSE]
  /\ last = [op |-> "init"]
  /\ IdleStore
  /\ IdleResult

Construct ==
  /\ walk.pc = "input"
  /\ walk' = [walk EXCEPT !.pc = "constructed",
                          !.ok = Multiscale_construct(walk.axes, walk.ndim)]
  /\ UNCHANGED <<fsmap, cache, reads, last, result, other, nAdded>>

ConstructNext == Construct

ConstructSpec == ConstructInit /\ [][ConstructNext]_vars

\* the position of an axis in the order [time, channel or custom, space]
ClaimedRank(type) ==
  CASE type = "time" -> 0
    [] type = "space" -> 2
    [] OTHER -> 1

\* C19: construction succeeds if and only if the space-axis count is 2 or
\* 3, the time-axis count is at most 1, the channel/custom-axis count is at
\* most 1, the axes are ordered [time?, channel/custom?, space...] and the
\* transform's dimensionality equals len(axes) <= 5.
C19_ConstructIffAxes ==
  walk.pc = "constructed" =>
    (walk.ok <=>
       /\ CountType(walk.axes, "space") \in 2..3
       /\ CountType(walk.axes, "time") <= 1
       /\ CountType(walk.axes, "channel") + CountType(walk.axes, "null")
            + CountType(walk.axes, "other") <= 1
       /\ \A i, j \in 1..Len(walk.axes) :
            i < j => ClaimedRank(walk.axes[i].type) <= ClaimedRank(walk.axes[j].type)
       /\ walk.ndim = Len(walk.axes)
       /\ Len(walk.axes) <= 5)

----------------------------------------------------------------------------
(* Specification of the validation of a list of coordinate transformations *)
(* (CoordinateTransformsList of v0.4 and of v0.5); a transformation is     *)
(* represented by its class.                                               *)

MaxTransforms == 5

TransformTypes == {"scale", "translation"}

\* len([t for t in transforms if isinstance(t, cls)])
CountOf(transforms, cls) ==
  Cardinality({i \in 1..Len(transforms) : transforms[i] = cls})

\* next(i for i, t in enumerate(transforms) if isinstance(t, cls))
FirstIndex(transforms, cls) ==
  CHOOSE i \in 1..Len(transforms) :
    /\ transforms[i] = cls
    /\ \A j \in 1..(i - 1) : transforms[j] # cls

\* v04 _validate_transforms_list: TRUE when no ValueError is raised
validate_transforms_list_v04(transforms) ==
  IF CountOf(transforms, "scale") # 1 THEN FALSE
  ELSE IF CountOf(transforms, "translation") > 1 THEN FALSE
  ELSE IF CountOf(transforms, "translation") # 0
          /\ FirstIndex(transforms, "translation") < FirstIndex(transforms, "scale")
       THEN FALSE
  ELSE TRUE

\* v05 _validate_transforms_list without the test of the order
Mut_validate_transforms_list_no_order(transforms) ==
  IF CountOf(transforms, "scale") # 1 THEN FALSE
  ELSE IF CountOf(transforms, "translation") > 1 THEN FALSE
  ELSE TRUE

\* v05 _validate_transforms_list: TRUE when no ValueError is raised
validate_transforms_list_v05(transforms) ==
  IF CountOf(transforms, "scale") # 1 THEN FALSE
  ELSE IF CountOf(transforms, "translation") > 1 THEN FALSE
  ELSE IF CountOf(transforms, "translation") # 0
          /\ FirstIndex(transforms, "translation") < FirstIndex(transforms, "scale")
       THEN FALSE
  ELSE TRUE

\* CoordinateTransformsList: MinLen(1), then the validator of the version
CoordinateTransformsList_valid(version, transforms) ==
  /\ Len(transforms) >= 1
  /\ IF version = "0.4" THEN validate_transforms_list_v04(transforms)
     ELSE validate_transforms_list_v05(transforms)

TransformsInit ==
  /\ \E version \in {"0.4", "0.5"}, n \in 0..MaxTransforms :
     \E transforms \in [1..n -> TransformTypes] :
       walk = [pc |-> "list", version |-> version, transforms |-> transforms,
               ok |-> FALSE]
  /\ last = [op |-> "init"]
  /\ IdleStore
  /\ IdleResult

ValidateTransforms ==
  /\ walk.pc = "list"
  /\ walk' = [walk EXCEPT !.pc = "validated",
                !.ok = CoordinateTransformsList_valid(walk.version, walk.transforms)]
  /\ UNCHANGED <<fsmap, cache, reads, last, result, other, nAdded>>

TransformsNext == ValidateTransforms

TransformsSpec == TransformsInit /\ [][TransformsNext]_vars

\* C20: a list of coordinate transformations is valid if and only if it
\* contains exactly one scale, at most one translation, and no translation
\* before the scale.
C20_TransformsValidIff ==
  walk.pc = "validated" =>
    (walk.ok <=>
       /\ CountOf(walk.transforms, "scale") = 1
       /\ CountOf(walk.transforms, "translation") <= 1
       /\ \A i, j \in 1..Len(walk.transforms) :
            walk.transforms[i] = "translation" /\ walk.transforms[j] = "scale"
            => j < i)

\* the list [scale, translation] of a v0.5 document was accepted
C20_Witness ==
  /\ walk.pc = "validated" /\ walk.version = "0.5"
  /\ walk.transforms = <<"scale", "translation">>
  /\ walk.ok

----------------------------------------------------------------------------
(* Specification of the resolution order of the datasets of a Multiscale   *)
(* (v0.4 and v0.5): axes [y, x] or [c, y, x], and datasets that each hold  *)
(* one scale transformation of len(axes) entries.                          *)

MaxDatasets == 2
MaxScale == 2

ScaledAxes ==
  {AxesOfTypes(<<"space", "space">>), AxesOfTypes(<<"channel", "space", "space">>)}

\* spatial_indices: the positions of the axes of type space
spatial_indices(axes) == {i \in 1..Len(axes) : axes[i].type = "space"}

\* the k-th smallest element of a set of positions
RECURSIVE NthOf(_, _)
NthOf(set, k) ==
  LET m == CHOOSE x \in set : \A y \in set : x <= y
  IN IF k = 1 THEN m ELSE NthOf(set \ {m}, k - 1)

\* tuple(ds.scale_transform.scale[idx] for idx in spatial_indices)
spatial_scale(axes, scale) ==
  [k \in 1..Cardinality(spatial_indices(axes)) |-> scale[NthOf(spatial_indices(axes), k)]]

\* spatial_scales: one tuple per dataset
spatial_scales(axes, scales) ==
  [d \in 1..Len(scales) |-> spatial_scale(axes, scales[d])]

\* a <= b for tuples of the same length, as Python compares them
RECURSIVE tuple_le(_, _)
tuple_le(a, b) ==
  IF a = <<>> THEN TRUE
  ELSE IF a[1] # b[1] THEN a[1] < b[1]
  ELSE tuple_le(Tail(a), Tail(b))

\* sorted(spatial_scales)
RECURSIVE insert_tuple(_, _)
insert_tuple(sorted, t) ==
  IF sorted = <<>> THEN <<t>>
  ELSE IF tuple_le(sorted[Len(sorted)], t) THEN Append(sorted, t)
  ELSE Append(insert_tuple(SubSeq(sorted, 1, Len(sorted) - 1), t), sorted[Len(sorted)])

RECURSIVE sorted_tuples(_)
sorted_tuples(ts) ==
  IF ts = <<>> THEN <<>>
  ELSE insert_tuple(sorted_tuples(SubSeq(ts, 1, Len(ts) - 1)), ts[Len(ts)])

\* v04 Multiscale._check_ndim: every scale has len(axes) entries
check_ndim(axes, scales) == \A d \in 1..Len(scales) : Len(scales[d]) = Len(axes)

\* v05 Multiscale._post_validate: the dimensionality, then the order of the
\* spatial scales
post_validate_scales(axes, scales) ==
  /\ \A d \in 1..Len(scales) : Len(scales[d]) = Len(axes)
  /\ spatial_scales(axes, scales) = sorted_tuples(spatial_scales(axes, scales))

\* Multiscale(axes=..., datasets=[...]) of the version
Multiscale_accepts(version, axes, scales) ==
  /\ AxesList_valid(axes)
  /\ Len(scales) >= 1
  /\ IF version = "0.4" THEN check_ndim(axes, scales)
     ELSE post_validate_scales(axes, scales)

ScalesInit ==
  /\ \E version \in {"0.4", "0.5"}, axes \in ScaledAxes, n \in 1..MaxDatasets :
     \E scales \in [1..n -> [1..Len(axes) -> 1..MaxScale]] :
       walk = [pc |-> "input", version |-> version, axes |-> axes,
               scales |-> scales, ok |-> FALSE]
  /\ last = [op |-> "init"]
  /\ IdleStore
  /\ IdleResult

ConstructV04 ==
  /\ walk.pc = "input" /\ walk.version = "0.4"
  /\ walk' = [walk EXCEPT !.pc = "constructed",
                !.ok = Multiscale_accepts("0.4", walk.axes, walk.scales)]
  /\ UNCHANGED <<fsmap, cache, reads, last, result, other, nAdded>>

ConstructV05 ==
  /\ walk.pc = "input" /\ walk.version = "0.5"
  /\ walk' = [walk EXCEPT !.pc = "constructed",
                !.ok = Multiscale_accepts("0.5", walk.axes, walk.scales)]
  /\ UNCHANGED <<fsmap, cache, reads, last, result, other, nAdded>>

ScalesNext == ConstructV04 \/ ConstructV05

ScalesSpec == ScalesInit /\ [][ScalesNext]_vars

\* no later dataset has a smaller scale on a space axis than an earlier one
NonDecreasing(axes, scales) ==
  \A i, j \in 1..Len(scales) : \A k \in spatial_indices(axes) :
    i < j => scales[i][k] <= scales[j][k]

\* C21: every accepted Multiscale has dataset scales that are non-decreasing
\* on every space axis across the dataset list, in v0.4 and v0.5 alike.
C21_ScalesNonDecreasing ==
  walk.pc = "constructed" /\ walk.ok => NonDecreasing(walk.axes, walk.scales)

\* the same for the v0.5 documents alone
C21_ScalesNonDecreasingV05 ==
  walk.pc = "constructed" /\ walk.ok /\ walk.version = "0.5"
    => NonDecreasing(walk.axes, walk.scales)

----------------------------------------------------------------------------
(* Specification of the construction of a PlateDef (v0.4 and v0.5 share    *)
(* the code): rows, columns and a list of wells; the path of a well is     *)
(* represented by the position of the well in the list.                    *)

MaxRows == 2
MaxColumns == 2
MaxWells == 2

\* PlateWell: rowIndex and columnIndex are NonNegativeInt; the errors of the
\* fields of all wells, each located at the field and not naming the path
PlateWell_errors(wells) ==
  {[type |-> "greater_than_equal", well |-> i, field |-> f] :
     i \in {k \in 1..Len(wells) : wells[k].rowIndex < 0}, f \in {"rowIndex"}}
  \cup
  {[type |-> "greater_than_equal", well |-> i, field |-> f] :
     i \in {k \in 1..Len(wells) : wells[k].columnIndex < 0}, f \in {"columnIndex"}}

\* _validate_well_indices without the test of the columns
RECURSIVE Mut_validate_well_indices_rows_only(_, _, _, _)
Mut_validate_well_indices_rows_only(wells, i, nrows, ncolumns) ==
  IF i > Len(wells) THEN [ok |-> TRUE, path |-> 0, field |-> "none"]
  ELSE IF wells[i].rowIndex >= nrows
       THEN [ok |-> FALSE, path |-> wells[i].path, field |-> "rowIndex"]
  ELSE Mut_validate_well_indices_rows_only(wells, i + 1, nrows, ncolumns)

\* PlateDef._validate_well_indices: the loop raises at the first well whose
\* rowIndex or columnIndex is beyond the rows or columns; the message names
\* well.path
RECURSIVE validate_well_indices(_, _, _, _)
validate_well_indices(wells, i, nrows, ncolumns) ==
  IF i > Len(wells) THEN [ok |-> TRUE, path |-> 0, field |-> "none"]
  ELSE IF wells[i].rowIndex >= nrows
       THEN [ok |-> FALSE, path |-> wells[i].path, field |-> "rowIndex"]
  ELSE IF wells[i].columnIndex >= ncolumns
       THEN [ok |-> FALSE, path |-> wells[i].path, field |-> "columnIndex"]
  ELSE validate_well_indices(wells, i + 1, nrows, ncolumns)

\* PlateDef(rows=..., columns=..., wells=...): the field errors of the
\* wells, or else the outcome of the model validator
PlateDef(wells, nrows, ncolumns) ==
  IF PlateWell_errors(wells) # {}
  THEN [ok |-> FALSE, path |-> 0, field |-> "none", errors |-> PlateWell_errors(wells)]
  ELSE validate_well_indices(wells, 1, nrows, ncolumns) @@ [errors |-> {}]

PlateInit ==
  /\ \E nrows \in 1..MaxRows, ncolumns \in 1..MaxColumns, n \in 1..MaxWells :
     \E idx \in [1..n -> [rowIndex : -1..MaxRows, columnIndex : -1..MaxColumns]] :
       walk = [pc |-> "input", nrows |-> nrows, ncolumns |-> ncolumns,
               wells |-> [i \in 1..n |-> [path |-> i, rowIndex |-> idx[i].rowIndex,
                                           columnIndex |-> idx[i].columnIndex]]]
  /\ last = [op |-> "init"]
  /\ IdleStore
  /\ IdleResult

ConstructPlate ==
  /\ walk.pc = "input"
  /\ walk' = [walk EXCEPT !.pc = "constructed"]
  /\ last' = [op |-> "PlateDef"] @@ PlateDef(walk.wells, walk.nrows, walk.ncolumns)
  /\ UNCHANGED <<fsmap, cache, reads, result, other, nAdded>>

PlateNext == ConstructPlate

PlateSpec == PlateInit /\ [][PlateNext]_vars

InBounds(w) ==
  /\ 0 <= w.rowIndex /\ w.rowIndex < walk.nrows
  /\ 0 <= w.columnIndex /\ w.columnIndex < walk.ncolumns

OutOfBounds == {i \in 1..Len(walk.wells) : ~InBounds(walk.wells[i])}

\* C22 as stated: the plate is constructed if and only if every well is in
\* bounds, and otherwise the error references the path of a well that is out
\* of bounds.
C22_ErrorReferencesWellPath ==
  walk.pc = "constructed" =>
    /\ last.ok <=> OutOfBounds = {}
    /\ ~last.ok => last.path \in OutOfBounds

\* C22: the plate is constructed if and only if every well has
\* 0 <= rowIndex < len(rows) and 0 <= columnIndex < len(columns); a negative
\* index is rejected by the field type with an error located at that field
\* of the well (it does not name the path); with no negative index the error
\* names the path of the first well that is out of bounds.
C22_WellIndices ==
  walk.pc = "constructed" =>
    /\ last.ok <=> OutOfBounds = {}
    /\ IF \E i \in 1..Len(walk.wells) :
            walk.wells[i].rowIndex < 0 \/ walk.wells[i].columnIndex < 0
       THEN /\ last.path = 0
            /\ \A i \in 1..Len(walk.wells) :
                 /\ walk.wells[i].rowIndex < 0
                    <=> [type |-> "greater_than_equal", well |-> i, field |-> "rowIndex"]
                          \in last.errors
                 /\ walk.wells[i].columnIndex < 0
                    <=> [type |-> "greater_than_equal", well |-> i, field |-> "columnIndex"]
                          \in last.errors
       ELSE /\ last.errors = {}
            /\ ~last.ok => /\ last.path \in OutOfBounds
                           /\ \A i \in OutOfBounds : last.path <= i

\* the second of two wells has a column index equal to the number of columns
C22_Witness ==
  /\ walk.pc = "constructed" /\ ~last.ok
  /\ Len(walk.wells) = 2 /\ InBounds(walk.wells[1])
  /\ walk.wells[2].rowIndex = 0 /\ walk.wells[2].columnIndex = walk.ncolumns
  /\ last.path = 2 /\ last.field = "columnIndex"

----------------------------------------------------------------------------
(* Specification of the round trip of a document through model_dump_json   *)
(* and validate_ome_json.  A document is its class: the version, the kind  *)
(* and, for v0.5, the envelope (the bare "ome" value, the attributes       *)
(* {"ome": ...} or the whole zarr.json); version_set tells whether the     *)
(* caller set the version field, which every v0.5 class declares with the  *)
(* default "0.5".  The contents of the other fields are the same on both   *)
(* sides of the round trip and are left out.                               *)

DocKinds == {"label-image", "image", "plate", "bf2raw", "well", "labels-group", "series"}

\* the key that the discriminators look for in a document of a kind
KindKey(kind) ==
  CASE kind = "label-image" -> "image-label"
    [] kind = "image" -> "multiscales"
    [] kind = "plate" -> "plate"
    [] kind = "bf2raw" -> "bioformats2raw.layout"
    [] kind = "well" -> "well"
    [] kind = "labels-group" -> "labels"
    [] kind = "series" -> "series"

Documents ==
  [version : {"0.4"}, kind : DocKinds, envelope : {"ome"}, version_set : {FALSE}]
  \cup [version : {"0.5"}, kind : DocKinds,
        envelope : {"ome", "attributes", "zarr.json"}, version_set : BOOLEAN]

\* the class and field values of a document, which is what == compares
ValueOf(doc) == [version |-> doc.version, kind |-> doc.kind, envelope |-> doc.envelope]

\* model_dump_json(by_alias=True, exclude_unset=only_explicit): the keys
\* under their aliases; the version key is there when the class has the
\* field and it was set, or when the defaults are emitted too
model_dump_json(doc, only_explicit) ==
  [keys |-> {KindKey(doc.kind)}
            \cup IF doc.kind = "label-image" THEN {"multiscales"} ELSE {},
   version |-> IF doc.version = "0.5" /\ (doc.version_set \/ ~only_explicit)
               THEN "0.5" ELSE "absent",
   envelope |-> doc.envelope]

\* cls=None: validate against AnyOME
AnyClass == "AnyOME"

\* the members of AnyOME in the order of the union
AnyOME == <<"v04.OMEZarrGroupJSON", "v05.OMEZarrGroupJSON", "v05.OMEMetadata",
            "v05.OMEAttributes">>

\* the document that a member of AnyOME makes of a JSON object, or None: the
\* v0.4 classes ignore a top-level version, the v0.5 classes default it
validate_member(member, json) ==
  LET tag == IF member = "v04.OMEZarrGroupJSON"
             THEN discriminate_ome_v04_metadata(json)
             ELSE discriminate_ome_v05_metadata(json)
      envelope == CASE member = "v05.OMEZarrGroupJSON" -> "zarr.json"
                    [] member = "v05.OMEAttributes" -> "attributes"
                    [] OTHER -> "ome"
  IN IF json.envelope # envelope \/ tag = NoTag THEN None
     ELSE IF tag = "label-image" /\ "multiscales" \notin json.keys THEN None
     ELSE [version |-> IF member = "v04.OMEZarrGroupJSON" THEN "0.4" ELSE "0.5",
           kind |-> tag, envelope |-> envelope,
           fields_set |-> Cardinality(json.keys)
                          + IF member # "v04.OMEZarrGroupJSON" /\ json.version # "absent"
                            THEN 1 ELSE 0]

\* TypeAdapter(cls or AnyOME).validate_json(data): with a class, that class;
\* otherwise the union in smart mode, which takes the leftmost member that
\* validates or, in later pydantic versions, the leftmost of the members
\* that validate with the most fields set
validate_ome_json(json, cls, smart) ==
  LET members == IF cls = AnyClass THEN {i \in 1..Len(AnyOME) : validate_member(AnyOME[i], json) # None}
                 ELSE {i \in 1..Len(AnyOME) : AnyOME[i] = cls /\ validate_member(cls, json) # None}
      best == IF smart = "leftmost" THEN members
              ELSE {i \in members : \A j \in members :
                      validate_member(AnyOME[j], json).fields_set
                        <= validate_member(AnyOME[i], json).fields_set}
  IN IF members = {} THEN Exc("ValidationError")
     ELSE ValueOf(validate_member(AnyOME[CHOOSE i \in best : \A j \in best : i <= j], json))

\* the member of AnyOME that a document is an instance of
ClassOf(doc) ==
  IF doc.version = "0.4" THEN "v04.OMEZarrGroupJSON"
  ELSE CASE doc.envelope = "zarr.json" -> "v05.OMEZarrGroupJSON"
         [] doc.envelope = "attributes" -> "v05.OMEAttributes"
         [] OTHER -> "v05.OMEMetadata"

RoundTripInit ==
  /\ \E doc \in Documents, only_explicit \in BOOLEAN, with_cls \in BOOLEAN,
        smart \in {"leftmost", "most_fields_set"} :
       walk = [pc |-> "document", doc |-> doc, only_explicit |-> only_explicit,
               cls |-> IF with_cls THEN ClassOf(doc) ELSE AnyClass, smart |-> smart,
               json |-> None, parsed |-> None]
  /\ last = [op |-> "init"]
  /\ IdleStore
  /\ IdleResult

\* js = obj.model_dump_json(...)
Serialize ==
  /\ walk.pc = "document"
  /\ walk' = [walk EXCEPT !.pc = "serialized",
                          !.json = model_dump_json(walk.doc, walk.only_explicit)]
  /\ UNCHANGED <<fsmap, cache, reads, last, result, other, nAdded>>

\* obj2 = validate_ome_json(js)
Parse ==
  /\ walk.pc = "serialized"
  /\ walk' = [walk EXCEPT !.pc = "parsed",
                          !.parsed = validate_ome_json(walk.json, walk.cls, walk.smart)]
  /\ UNCHANGED <<fsmap, cache, reads, last, result, other, nAdded>>

RoundTripNext == Serialize \/ Parse

RoundTripSpec == RoundTripInit /\ [][RoundTripNext]_vars

\* C23: for any valid document D of any kind, parsing the serialization of D
\* (only explicitly set fields, wire aliases) yields a document equal to D.
C23_RoundTrip ==
  walk.pc = "parsed" /\ walk.only_explicit /\ walk.cls = AnyClass
    => walk.parsed = ValueOf(walk.doc)

\* the round trip holds when the parser is given the class of D
C23_RoundTripWithClass ==
  walk.pc = "parsed" /\ walk.cls # AnyClass => walk.parsed = ValueOf(walk.doc)

\* the round trip of the documents found in stores (a v0.4 document, or a
\* v0.5 zarr.json) holds with the defaults emitted, as test_data does it
C23_RoundTripOfStoredDocuments ==
  walk.pc = "parsed" /\ ~walk.only_explicit /\ walk.cls = AnyClass
  /\ (walk.doc.version = "0.4" \/ walk.doc.envelope = "zarr.json")
    => walk.parsed = ValueOf(walk.doc)

----------------------------------------------------------------------------
(* Specification of the CLI command validate: validate_zarr_store returns, *)
(* raises StorageValidationError with a list of errors, raises ImportError *)
(* or raises another exception; print_zarr_info succeeds or raises.  A     *)
(* piece of a location is a record [kind, val] with kind "int" or "str".   *)

MaxReported == 2

IntPart(v) == [kind |-> "int", val |-> v]
StrPart(v) == [kind |-> "str", val |-> v]

ReportedLocs ==
  {<<>>, <<StrPart("labels")>>, <<IntPart("0")>>,
   <<StrPart("multiscales"), IntPart("0"), StrPart("datasets"), IntPart("1"), StrPart("path")>>}

ReportedErrors ==
  [type : {"dataset_path_not_found", "label_non_integer_dtype"}, loc : ReportedLocs,
   msg : {"message"}]

\* format_error_list: the pieces of loc_parts after the loop over error["loc"];
\* an index is joined to the piece before it with a dot
RECURSIVE loc_parts(_)
loc_parts(loc) ==
  IF loc = <<>> THEN <<>>
  ELSE LET before == loc_parts(SubSeq(loc, 1, Len(loc) - 1))
           part == loc[Len(loc)]
       IN IF part.kind = "int" /\ before # <<>>
          THEN [before EXCEPT ![Len(before)] = Append(@, part.val)]
          ELSE Append(before, <<part.val>>)

\* ".".join(...): a dotted string is the sequence of the pieces between dots
RECURSIVE join_dots(_)
join_dots(parts) ==
  IF parts = <<>> THEN <<>> ELSE parts[1] \o join_dots(Tail(parts))

\* format_error_list: per error its number, dotted location, type and message
format_error_list(errors) ==
  [i \in 1..Len(errors) |->
     [n |-> i, loc |-> join_dots(loc_parts(errors[i].loc)),
      type |-> errors[i].type, msg |-> errors[i].msg]]

\* the keyword parameters of StorageValidationError.errors
errors_parameters == {"include_context"}

\* StorageValidationError.errors(**kwargs): a keyword that the method does
\* not declare raises TypeError
StorageValidationError_errors(details, kwargs) ==
  IF kwargs \subseteq errors_parameters
  THEN [ret |-> details, exc |-> None]
  ELSE [ret |-> <<>>, exc |-> Exc("TypeError")]

\* validate_command: ret is the exit code; exc is an exception that leaves
\* the function (raised inside an except block, it is not caught by the
\* other except clauses); stderr is what was printed for the errors
validate_command(outcome, details, info_fails) ==
  CASE outcome = "valid" ->
         IF info_fails THEN [ret |-> 2, exc |-> None, stderr |-> <<>>]
         ELSE [ret |-> 0, exc |-> None, stderr |-> <<>>]
    [] outcome = "ImportError" -> [ret |-> 2, exc |-> None, stderr |-> <<>>]
    [] outcome = "StorageValidationError" ->
         LET errors == StorageValidationError_errors(
                         details, {"include_input", "include_context", "include_url"})
         IN IF errors.exc # None
            THEN [ret |-> -1, exc |-> errors.exc, stderr |-> <<>>]
            ELSE [ret |-> 1, exc |-> None, stderr |-> format_error_list(errors.ret)]
    [] OTHER -> [ret |-> 2, exc |-> None, stderr |-> <<>>]

CliInit ==
  /\ \E outcome \in {"valid", "ImportError", "StorageValidationError", "OSError"},
        info_fails \in BOOLEAN, n \in 0..MaxReported :
     \E details \in [1..n -> ReportedErrors] :
       /\ outcome = "StorageValidationError" <=> n > 0
       /\ walk = [pc |-> "command", outcome |-> outcome, details |-> details,
                  info_fails |-> info_fails]
  /\ last = [op |-> "init"]
  /\ IdleStore
  /\ IdleResult

ValidateCommand ==
  /\ walk.pc = "command"
  /\ walk' = [walk EXCEPT !.pc = "exited"]
  /\ last' = [op |-> "validate"]
             @@ validate_command(walk.outcome, walk.details, walk.info_fails)
  /\ UNCHANGED <<fsmap, cache, reads, result, other, nAdded>>

CliNext == ValidateCommand

CliSpec == CliInit /\ [][CliNext]_vars

\* the dotted location of an error: its pieces in order
Dotted(loc) == [i \in 1..Len(loc) |-> loc[i].val]

\* C24: validate exits with code 0 when the store is valid, with code 1 when
\* validation errors were found, after printing each error with its dotted
\* location, kind and message, and with code 2 for any other failure.
C24_ExitCodes ==
  walk.pc = "exited" =>
    /\ last.exc = None
    /\ last.ret = CASE walk.outcome = "StorageValidationError" -> 1
                    [] walk.outcome = "valid" /\ ~walk.info_fails -> 0
                    [] OTHER -> 2
    /\ walk.outcome = "StorageValidationError" =>
         /\ Len(last.stderr) = Len(walk.details)
         /\ \A i \in 1..Len(walk.details) :
              /\ last.stderr[i].loc = Dotted(walk.details[i].loc)
              /\ last.stderr[i].type = walk.details[i].type
              /\ last.stderr[i].msg = walk.details[i].msg

\* the exit codes of the runs that found no validation error
C24_ExitCodesWithoutErrors ==
  walk.pc = "exited" /\ walk.outcome # "StorageValidationError" =>
    /\ last.exc = None
    /\ last.ret = IF walk.outcome = "valid" /\ ~walk.info_fails THEN 0 ELSE 2

\* ---------------------------------------------------------------------------
\* The builders of write/v05/_write.py: Bf2RawBuilder, PlateBuilder and
\* LabelsBuilder.  A builder keeps the names it wrote (immediate-write
\* workflow) and the names it registered (prepare-only workflow); the
\* directory tree under its destination is kept as the state of the root
\* ("absent", a plain directory "dir", or a zarr "group"), the list of names
\* in the group metadata, the child groups that exist and the child groups
\* whose arrays hold written data.
\* ---------------------------------------------------------------------------
MaxEntries == 2

BuilderKinds == {"Bf2RawBuilder", "PlateBuilder", "LabelsBuilder"}

SeriesNames == <<"0", "1", "2", "3">>
WellPaths == <<"A/1", "A/2", "B/1", "B/2">>
LabelNames == <<"cells", "membrane", "nuclei", "spots">>

AllNames(kind) ==
  CASE kind = "Bf2RawBuilder" -> SeriesNames
    [] kind = "PlateBuilder" -> WellPaths
    [] OTHER -> LabelNames

EntryNames(kind) == {AllNames(kind)[i] : i \in 1..MaxEntries}

\* an image and the data passed with it: the number of its multiscales, the
\* number of datasets of its first multiscale, the number of arrays passed
ImageInputs == [multiscales : 1..2, datasets : 1..2, arrays : 1..2]

NewBuilder(kind, overwrite, has_plate, plate_wells, root) ==
  [kind |-> kind, overwrite |-> overwrite,
   has_plate |-> has_plate, plate_wells |-> plate_wells,
   added |-> <<>>, initialized |-> FALSE, written |-> <<>>,
   root |-> root, listed |-> <<>>, groups |-> {}, data |-> {}]

Done(b) == [b |-> b, exc |-> None]
Fail(b, e) == [b |-> b, exc |-> e]

\* sorted(wells_set) of _autogenerate_plate_metadata
sorted_wells(S) == SelectSeq(WellPaths, LAMBDA w : w \in S)

Mut_validate_name_written_only(b, name) ==
  IF name \in Range(b.written) THEN Exc("ValueError") ELSE None

\* _validate_series_name, _validate_well_coordinates, _validate_label_name
validate_name(b, name) ==
  IF name \in Range(b.written) THEN Exc("ValueError")
  ELSE IF name \in Range(b.added) THEN Exc("ValueError")
  ELSE IF b.kind = "PlateBuilder" /\ b.has_plate /\ name \notin b.plate_wells
       THEN Exc("ValueError")
  ELSE None

validate_and_normalize_datasets(image) ==
  IF image.multiscales # 1 THEN Exc("NotImplementedError")
  ELSE IF image.arrays # image.datasets THEN Exc("ValueError")
  ELSE None

\* _create_zarr3_group on the destination of the builder, with the list of
\* names its metadata carries
create_root_group(b, listed) ==
  IF b.root # "absent" /\ (~b.overwrite \/ b.root = "dir")
  THEN Fail(b, Exc("FileExistsError"))
  ELSE Done([b EXCEPT !.root = "group", !.listed = listed,
                      !.groups = {}, !.data = {}])

\* _create_zarr3_group on the child group of one name
create_child_group(b, name) ==
  IF name \in b.groups /\ ~b.overwrite
  THEN Fail(b, Exc("FileExistsError"))
  ELSE Done([b EXCEPT !.groups = @ \cup {name}, !.data = @ \ {name}])

prepare_image(b, name, image) ==
  IF validate_and_normalize_datasets(image) # None
  THEN Fail(b, validate_and_normalize_datasets(image))
  ELSE create_child_group(b, name)

\* the module-level write_image: prepare_image, then the data is written
write_image(b, name, image) ==
  LET r == prepare_image(b, name, image)
  IN IF r.exc # None THEN r
     ELSE Done([r.b EXCEPT !.data = @ \cup {name}])

ensure_initialized(b) ==
  IF b.initialized THEN Done(b)
  ELSE IF b.kind = "Bf2RawBuilder"
  THEN LET r == create_root_group(b, <<>>)
       IN IF r.exc # None THEN r
          ELSE Done([r.b EXCEPT !.initialized = TRUE])
  ELSE Done([b EXCEPT !.initialized = TRUE,
                      !.root = IF @ = "absent" THEN "dir" ELSE @])

\* the wells of the plate metadata: those of the plate the user gave, else
\* the ones generated from the written and the registered wells
generate_current_plate_metadata(b) ==
  IF b.has_plate THEN sorted_wells(b.plate_wells)
  ELSE sorted_wells(Range(b.written) \cup Range(b.added))

Mut_update_plate_metadata_written_only(b) ==
  [b EXCEPT !.listed = sorted_wells(Range(b.written)), !.root = "group"]

update_plate_metadata(b) ==
  [b EXCEPT !.listed = generate_current_plate_metadata(b), !.root = "group"]

\* _update_ome_series and _update_labels_group
update_listing(b, name) ==
  IF name \in Range(b.written) THEN b
  ELSE [b EXCEPT !.written = Append(@, name), !.listed = Append(b.written, name),
                 !.root = "group"]

\* Bf2RawBuilder.write_image and LabelsBuilder.write_label
Builder_write_image(b, name, image) ==
  IF validate_name(b, name) # None THEN Fail(b, validate_name(b, name))
  ELSE LET r == ensure_initialized(b)
       IN IF r.exc # None THEN r
          ELSE write_image(update_listing(r.b, name), name, image)

PlateBuilder_write_well(b, name, image) ==
  IF validate_name(b, name) # None THEN Fail(b, validate_name(b, name))
  ELSE LET r == ensure_initialized(b)
       IN IF validate_and_normalize_datasets(image) # None
          THEN Fail(r.b, validate_and_normalize_datasets(image))
          ELSE write_image(
                 update_plate_metadata([r.b EXCEPT !.written = Append(@, name)]),
                 name, image)

\* add_series, add_well, add_label
Builder_add(b, name, image) ==
  IF validate_name(b, name) # None THEN Fail(b, validate_name(b, name))
  ELSE IF validate_and_normalize_datasets(image) # None
  THEN Fail(b, validate_and_normalize_datasets(image))
  ELSE Done([b EXCEPT !.added = Append(@, name)])

RECURSIVE prepare_all(_, _)
prepare_all(b, i) ==
  IF i > Len(b.added) THEN Done(b)
  ELSE LET r == create_child_group(b, b.added[i])
       IN IF r.exc # None THEN r ELSE prepare_all(r.b, i + 1)

Builder_prepare(b) ==
  IF b.added = <<>> THEN Fail(b, Exc("ValueError"))
  ELSE LET listed == IF b.kind = "PlateBuilder"
                     THEN generate_current_plate_metadata(b)
                     ELSE b.added
           r == create_root_group(b, listed)
       IN IF r.exc # None THEN r ELSE prepare_all(r.b, 1)

BuilderInit ==
  /\ \E kind \in BuilderKinds, overwrite \in BOOLEAN, root \in {"absent", "group"},
        plate_wells \in SUBSET EntryNames("PlateBuilder") :
       /\ kind # "PlateBuilder" => plate_wells = {}
       /\ walk = [pc |-> "builder",
                  b |-> NewBuilder(kind, overwrite, plate_wells # {}, plate_wells, root)]
  /\ last = [op |-> "init"]
  /\ IdleStore
  /\ IdleResult

Called(op, name, r) ==
  /\ walk' = [walk EXCEPT !.b = r.b]
  /\ last' = [op |-> op, name |-> name, exc |-> r.exc, pre |-> walk.b]
  /\ UNCHANGED <<fsmap, cache, reads, result, other, nAdded>>

WriteImage(name, image) ==
  /\ walk.pc = "builder"
  /\ walk.b.kind # "PlateBuilder"
  /\ Called("write", name, Builder_write_image(walk.b, name, image))

WriteWell(name, image) ==
  /\ walk.pc = "builder"
  /\ walk.b.kind = "PlateBuilder"
  /\ Called("write", name, PlateBuilder_write_well(walk.b, name, image))

Add(name, image) ==
  /\ walk.pc = "builder"
  /\ Called("add", name, Builder_add(walk.b, name, image))

Prepare ==
  /\ walk.pc = "builder"
  /\ Called("prepare", "", Builder_prepare(walk.b))

BuilderNext ==
  \/ \E name \in EntryNames(walk.b.kind), image \in ImageInputs : WriteImage(name, image)
  \/ \E name \in EntryNames(walk.b.kind), image \in ImageInputs : WriteWell(name, image)
  \/ \E name \in EntryNames(walk.b.kind), image \in ImageInputs : Add(name, image)
  \/ Prepare

BuilderSpec == BuilderInit /\ [][BuilderNext]_vars

Registered(b) == Range(b.written) \cup Range(b.added)

NoDuplicates(seq) == \A i, j \in 1..Len(seq) : seq[i] = seq[j] => i = j

\* C25: a write or add call that names a series, well or label the builder
\* already wrote or already registered raises ValueError, so that no name is
\* registered twice, in one workflow or across both.
C25_NamesRegisteredOnce ==
  walk.pc = "builder" =>
    /\ last.op \in {"write", "add"} /\ last.name \in Registered(last.pre)
         => last.exc = Exc("ValueError") /\ walk.b = last.pre
    /\ NoDuplicates(walk.b.written \o walk.b.added)

C25_Witness ==
  /\ walk.pc = "builder"
  /\ last.op = "write"
  /\ last.name \in Range(last.pre.added)
  /\ last.pre.written # <<>>
  /\ last.exc = Exc("ValueError")

\* the state right after a write_well call that returned
WellWritten ==
  /\ walk.pc = "builder"
  /\ walk.b.kind = "PlateBuilder"
  /\ last.op = "write"
  /\ last.exc = None

WriteRaised ==
  /\ walk.pc = "builder"
  /\ last.op = "write"
  /\ last.exc # None

\* what a failed call must leave alone: the names the builder holds, the
\* names listed in the metadata on disk, and its answer for the name
LeftAsBefore ==
  /\ walk.b.written = last.pre.written
  /\ walk.b.added = last.pre.added
  /\ walk.b.listed = last.pre.listed
  /\ validate_name(walk.b, last.name) = validate_name(last.pre, last.name)

\* C29: an immediate-write call that raises leaves the builder and the
\* metadata on disk as they were before the call: the name is not added to
\* the series, labels or plate metadata, and a later call with the same name
\* is accepted as it would have been before.
C29_FailedWriteLeavesState == WriteRaised => LeftAsBefore

\* the same for PlateBuilder.write_well alone, which validates the datasets
\* before it records the well
C29_FailedWriteWellLeavesState ==
  WriteRaised /\ walk.b.kind = "PlateBuilder" => LeftAsBefore

\* the state right after a prepare() call
Prepared ==
  /\ walk.pc = "builder"
  /\ last.op = "prepare"

\* what prepare() must keep: the data written before it, and the entries of
\* the written names in the metadata on disk
KeepsWritten ==
  /\ last.pre.data \subseteq walk.b.data
  /\ Range(last.pre.listed) \cap Range(walk.b.written) \subseteq Range(walk.b.listed)

\* C30: prepare(), with or without overwrite, neither deletes data written
\* before by the immediate-write method nor drops the written names from the
\* metadata on disk; when it returns, every name written or added so far is
\* listed in the group metadata and has its group on disk.
C30_PrepareKeepsWritten ==
  Prepared =>
    /\ KeepsWritten
    /\ last.exc = None =>
         /\ Registered(walk.b) \subseteq Range(walk.b.listed)
         /\ Registered(walk.b) \subseteq walk.b.groups

\* without overwrite a prepare() after a write raises and changes nothing
C30_PrepareWithoutOverwrite ==
  Prepared /\ ~walk.b.overwrite =>
    /\ KeepsWritten
    /\ last.pre.written # <<>> => last.exc # None /\ walk.b = last.pre

\* ---------------------------------------------------------------------------
\* Prefetching against plain access: the group of a store is read through the
\* caching wrapper (cache), with prefetch_children calls in between, and next
\* to it through a second wrapper (walk.plain) that sees the same accesses
\* and no prefetch.
\* ---------------------------------------------------------------------------
GroupLayouts == {l \in NodeLayouts : l.zarr_json = "group" \/ l.zgroup = "ok"}

KeyBatches == {<< <<"g">> >>, << <<"a">> >>, << <<"missing">> >>,
               << <<"g">>, <<"a">>, <<"missing">> >>}

AccessOps == {"contains", "get", "getitem"}

\* the reader state over a given cache
PlainState(c) == [WalkState({}) EXCEPT !.cache = c]

\* `key in group`, group.get(key), group[key]
access(op, s, g, key) ==
  CASE op = "contains" -> contains(s, g, key)
    [] op = "get" -> get(s, g, key)
    [] OTHER -> getitem(s, g, key)

\* what the caller sees: the exception, True or False, None, or the node type
Seen(op, r) ==
  IF r.exc # None THEN r.exc.exc
  ELSE IF op = "contains" THEN (IF r.ret THEN "True" ELSE "False")
  ELSE IF r.ret = None THEN "None"
  ELSE r.ret.meta.node_type

TransparentInit ==
  /\ \E l \in GroupLayouts : fsmap = StoreOfLayout(l)
  /\ cache = EmptyMap
  /\ reads = EmptyMap
  /\ last = [op |-> "init"]
  /\ walk = [pc |-> "closed"]
  /\ IdleResult

OpenRoot ==
  /\ walk.pc = "closed"
  /\ \E r \in {open_group(WalkState({}))} :
       /\ r.exc = None
       /\ walk' = [pc |-> "open", g |-> r.ret, plain |-> r.s.cache, prefetched |-> {}]
       /\ cache' = r.s.cache
       /\ reads' = r.s.reads
  /\ last' = [op |-> "open_group"]
  /\ UNCHANGED <<fsmap, result, other, nAdded>>

PrefetchChildren(keys, fails) ==
  /\ walk.pc = "open"
  /\ \E r \in {prefetch_children(WalkState(IF fails THEN {1} ELSE {}), walk.g, keys)} :
       /\ cache' = r.s.cache
       /\ reads' = r.s.reads
  /\ walk' = [walk EXCEPT !.prefetched = @ \cup Range(keys)]
  /\ last' = [op |-> "prefetch"]
  /\ UNCHANGED <<fsmap, result, other, nAdded>>

Access(op, key) ==
  /\ walk.pc = "open"
  /\ \E r \in {access(op, WalkState({}), walk.g, key)},
        p \in {access(op, PlainState(walk.plain), walk.g, key)} :
       /\ cache' = r.s.cache
       /\ reads' = r.s.reads
       /\ walk' = [walk EXCEPT !.plain = p.s.cache]
       /\ last' = [op |-> op, key |-> key, seen |-> Seen(op, r), plain |-> Seen(op, p),
                   prefetched |-> key \in walk.prefetched]
  /\ UNCHANGED <<fsmap, result, other, nAdded>>

TransparentNext ==
  \/ OpenRoot
  \/ \E keys \in KeyBatches, fails \in BOOLEAN : PrefetchChildren(keys, fails)
  \/ \E op \in AccessOps, key \in ChildKeys : Access(op, key)

TransparentSpec == TransparentInit /\ [][TransparentNext]_vars

\* C27: the outcome of `key in group`, group.get(key) and group[key] is the
\* same whether or not prefetch_children was called before with the key, in
\* zarr v2 and in zarr v3 stores.
C27_PrefetchTransparent ==
  walk.pc = "open" /\ last.op \in AccessOps => last.seen = last.plain

\* the same for the groups of zarr v3 stores alone
C27_PrefetchTransparentV3 ==
  walk.pc = "open" /\ last.op \in AccessOps /\ walk.g.meta.zarr_format = 3
    => last.seen = last.plain

\* ---------------------------------------------------------------------------
\* get(key, default) against the later operations: the wrapper (cache) sees
\* get calls with a default, a second wrapper (walk.plain) sees only the
\* operations that follow them.
\* ---------------------------------------------------------------------------
LaterOps == {"contains", "get", "getitems"}

\* `key in cache`, cache.get(key), cache.getitems([key])
later(op, s, key) ==
  CASE op = "contains" -> CachedMapper_contains(s, key, NoFail)
    [] op = "get" -> CachedMapper_get(s, key, None, NoFail)
    [] OTHER -> CachedMapper_getitems(s, <<key>>, "omit", FALSE, NoFail)

\* what the caller sees of one of these operations for the key
Reported(op, r, key) ==
  CASE op = "contains" -> IF r.ret THEN "present" ELSE "missing"
    [] op = "get" -> IF r.exc # None THEN r.exc.exc
                     ELSE IF r.ret = None THEN "missing" ELSE "present"
    [] OTHER -> IF key \in DOMAIN r.ret THEN "present" ELSE "missing"

DefaultInit ==
  /\ fsmap \in UNION {[D -> CacheVals] : D \in SUBSET CacheKeys}
  /\ cache = EmptyMap
  /\ reads = EmptyMap
  /\ last = [op |-> "init"]
  /\ walk = [pc |-> "cache", plain |-> EmptyMap, defaulted |-> {}]
  /\ IdleResult

GetDefault(key, default) ==
  /\ walk.pc = "cache"
  /\ \E r \in {CachedMapper_get(Handle, key, default, NoFail)} :
       /\ cache' = r.s.cache
       /\ reads' = r.s.reads
       /\ last' = [op |-> "get_default", key |-> key, ret |-> r.ret, exc |-> r.exc]
  /\ walk' = [walk EXCEPT !.defaulted = @ \cup {key}]
  /\ UNCHANGED <<fsmap, result, other, nAdded>>

Later(op, key) ==
  /\ walk.pc = "cache"
  /\ \E r \in {later(op, Handle, key)},
        p \in {later(op, [cache |-> walk.plain, reads |-> EmptyMap], key)} :
       /\ cache' = r.s.cache
       /\ reads' = r.s.reads
       /\ walk' = [walk EXCEPT !.plain = p.s.cache]
       /\ last' = [op |-> op, key |-> key, seen |-> Reported(op, r, key),
                   plain |-> Reported(op, p, key)]
  /\ UNCHANGED <<fsmap, result, other, nAdded>>

DefaultNext ==
  \/ \E k \in CacheKeys, d \in Defaults \ {None} : GetDefault(k, d)
  \/ \E op \in LaterOps, k \in CacheKeys : Later(op, k)

DefaultSpec == DefaultInit /\ [][DefaultNext]_vars

\* C28: after get(key, default) for a key missing from the store, the later
\* operations report the key as they would without that call: `key in cache`
\* is false, get(key) reports it missing and getitems omits it.
C28_GetDefaultLeavesKeyMissing ==
  /\ walk.pc = "cache"
  /\ last.op \in LaterOps
  /\ last.key \in walk.defaulted
  /\ last.key \notin DOMAIN fsmap
  => last.seen = "missing" /\ last.seen = last.plain

\* the same for a key that the store holds
C28_GetDefaultLeavesKeyPresent ==
  /\ walk.pc = "cache"
  /\ last.op \in LaterOps
  /\ last.key \in DOMAIN fsmap
  => last.seen = "present" /\ last.seen = last.plain

====
